---- MODULE Spec2Model ----
(***************************************************************************)
(* A model of the confusing configuration library: key normalizers, the    *)
(* convention resolver, and the two structural decoders (MapSource and     *)
(* EnvSource) with the PrefixedSource adapter.                              *)
(*                                                                         *)
(* Strings that the code inspects character by character (keys, tags,      *)
(* environment values) are sequences of one-character strings.             *)
(***************************************************************************)
EXTENDS Integers, Sequences, FiniteSets, TLC

\* ------------------------------------------------------------------------
\* Bounds of the model
\* ------------------------------------------------------------------------
\* longest logical key fed to the normalizers in SpecNorm
MaxKeyLen == 4
\* number of SetConventionForSourceType / Setenv calls in a behaviour
MaxConvOps == 2
\* nesting depth of a flat key after which the key is no longer extended
MaxDepth == 3
\* the most RegisterSource calls made before NewSource
MaxRegistered == 2
\* the count of processed queue items stops at this value
MaxSteps == 24

\* ------------------------------------------------------------------------
\* Characters and strings
\* ------------------------------------------------------------------------
LowerLetters == <<"a","b","c","d","e","f","g","h","i","j","k","l","m",
                  "n","o","p","q","r","s","t","u","v","w","x","y","z">>
UpperLetters == <<"A","B","C","D","E","F","G","H","I","J","K","L","M",
                  "N","O","P","Q","R","S","T","U","V","W","X","Y","Z">>
Digits == <<"0","1","2","3","4","5","6","7","8","9">>

IsLower(c) == \E i \in 1..26 : LowerLetters[i] = c
IsUpper(c) == \E i \in 1..26 : UpperLetters[i] = c
IsDigit(c) == \E i \in 1..10 : Digits[i] = c

ToUpperC(c) == IF IsLower(c) THEN UpperLetters[CHOOSE i \in 1..26 : LowerLetters[i] = c] ELSE c
ToLowerC(c) == IF IsUpper(c) THEN LowerLetters[CHOOSE i \in 1..26 : UpperLetters[i] = c] ELSE c

\* F(e), with e evaluated once however often F uses its argument
With(e, F(_)) == CHOOSE r \in {F(x) : x \in {e}} : TRUE

ToUpper(s) == With(s, LAMBDA x : [i \in 1..Len(x) |-> ToUpperC(x[i])])
ToLower(s) == With(s, LAMBDA x : [i \in 1..Len(x) |-> ToLowerC(x[i])])

\* strings.Split with a one-character separator
RECURSIVE Split(_, _)
Split(s, sep) ==
    With(s, LAMBDA x :
        IF \A i \in 1..Len(x) : x[i] # sep
        THEN <<x>>
        ELSE With(CHOOSE i \in 1..Len(x) : x[i] = sep /\ \A j \in 1..(i-1) : x[j] # sep,
                  LAMBDA i : <<SubSeq(x, 1, i-1)>> \o Split(SubSeq(x, i+1, Len(x)), sep)))

\* strings.Join
RECURSIVE Join(_, _)
Join(parts, sep) ==
    With(parts, LAMBDA ps :
        IF Len(ps) = 0 THEN <<>>
        ELSE IF Len(ps) = 1 THEN ps[1]
        ELSE ps[1] \o <<sep>> \o Join(Tail(ps), sep))

\* ------------------------------------------------------------------------
\* camelToSnake and the three normalizers
\* ------------------------------------------------------------------------
\* end of the greedy run [a-z]+ that starts at position j
RECURSIVE LowerRunEnd(_, _)
LowerRunEnd(s, j) ==
    With(j, LAMBDA k : IF k < Len(s) /\ IsLower(s[k+1]) THEN LowerRunEnd(s, k+1) ELSE k)

\* matchFirstCap.ReplaceAllString(input, "${1}_${2}") with (.)([A-Z][a-z]+)
RECURSIVE FirstCapFrom(_, _)
FirstCapFrom(s, i) ==
    With(i, LAMBDA k :
        IF k > Len(s) THEN <<>>
        ELSE IF k + 2 <= Len(s) /\ IsUpper(s[k+1]) /\ IsLower(s[k+2])
             THEN With(LowerRunEnd(s, k+2),
                       LAMBDA e : <<s[k], "_">> \o SubSeq(s, k+1, e) \o FirstCapFrom(s, e+1))
             ELSE <<s[k]>> \o FirstCapFrom(s, k+1))

matchFirstCap(s) == With(s, LAMBDA x : FirstCapFrom(x, 1))

\* matchAllCap.ReplaceAllString(input, "${1}_${2}") with ([a-z0-9])([A-Z])
RECURSIVE AllCapFrom(_, _)
AllCapFrom(s, i) ==
    With(i, LAMBDA k :
        IF k > Len(s) THEN <<>>
        ELSE IF k + 1 <= Len(s) /\ (IsLower(s[k]) \/ IsDigit(s[k])) /\ IsUpper(s[k+1])
             THEN <<s[k], "_", s[k+1]>> \o AllCapFrom(s, k+2)
             ELSE <<s[k]>> \o AllCapFrom(s, k+1))

matchAllCap(s) == With(s, LAMBDA x : AllCapFrom(x, 1))

camelToSnake(input, ensureLowercase) ==
    With(matchAllCap(matchFirstCap(input)),
         LAMBDA r : IF ensureLowercase THEN ToLower(r) ELSE r)

\* lcfirst indexes r[0]: it faults on the empty string
lcfirst(s) == With(s, LAMBDA x : [i \in 1..Len(x) |-> IF i = 1 THEN ToLowerC(x[i]) ELSE x[i]])

SnakeCaseConvention == "snake"
CamelCaseConvention == "camel"
UpperSnakeCaseConvention == "upper_snake"

SnakeCaseNormalize(key) == camelToSnake(key, TRUE)

UpperSnakeCaseNormalize(key) ==
    With(Split(key, "."), LAMBDA parts :
        Join([i \in 1..Len(parts) |-> ToUpper(camelToSnake(parts[i], FALSE))], "_"))

CamelCaseNormalize(key) ==
    With(Split(key, "."), LAMBDA parts :
        Join([i \in 1..Len(parts) |-> lcfirst(parts[i])], "."))

\* KeyNormalizer.Normalize of the normalizer registered under a convention
Normalize(conv, key) ==
    CASE conv = SnakeCaseConvention      -> SnakeCaseNormalize(key)
      [] conv = UpperSnakeCaseConvention -> UpperSnakeCaseNormalize(key)
      [] conv = CamelCaseConvention      -> CamelCaseNormalize(key)

\* CamelCaseNormalizer faults (index out of range in lcfirst) on an empty segment
NormalizeFaults(conv, key) ==
    conv = CamelCaseConvention
    /\ With(Split(key, "."), LAMBDA parts : \E i \in 1..Len(parts) : parts[i] = <<>>)

\* ------------------------------------------------------------------------
\* Primitive parsing
\* ------------------------------------------------------------------------
IsSpace(c) == c = " "

\* strings.TrimSpace
RECURSIVE TrimLeft(_)
TrimLeft(s) ==
    With(s, LAMBDA x : IF Len(x) > 0 /\ IsSpace(x[1]) THEN TrimLeft(Tail(x)) ELSE x)
RECURSIVE TrimRight(_)
TrimRight(s) ==
    With(s, LAMBDA x :
        IF Len(x) > 0 /\ IsSpace(x[Len(x)]) THEN TrimRight(SubSeq(x, 1, Len(x) - 1)) ELSE x)
TrimSpace(s) == TrimRight(TrimLeft(s))

\* parseBool: [ok, b]; ok = FALSE is InvalidBooleanError
parseBool(val) ==
    With(ToLower(val), LAMBDA l :
        IF l \in {<<"1">>, <<"y","e","s">>, <<"o","n">>} THEN [ok |-> TRUE, b |-> TRUE]
        ELSE IF l \in {<<"0">>, <<"n","o">>, <<"o","f","f">>} THEN [ok |-> TRUE, b |-> FALSE]
        ELSE [ok |-> FALSE, b |-> FALSE])

DigitValue(c) == (CHOOSE i \in 1..10 : Digits[i] = c) - 1

RECURSIVE DigitsValue(_)
DigitsValue(s) ==
    With(s, LAMBDA x :
        IF Len(x) = 0 THEN 0
        ELSE 10 * DigitsValue(SubSeq(x, 1, Len(x) - 1)) + DigitValue(x[Len(x)]))

\* strconv.Atoi: optional sign, then one or more decimal digits
Atoi(s) ==
    With(s, LAMBDA x :
        LET signed == Len(x) > 0 /\ x[1] \in {"+", "-"}
            body == IF signed THEN Tail(x) ELSE x
        IN  IF Len(body) > 0 /\ \A i \in 1..Len(body) : IsDigit(body[i])
            THEN [ok |-> TRUE,
                  n |-> IF signed /\ x[1] = "-" THEN 0 - DigitsValue(body) ELSE DigitsValue(body)]
            ELSE [ok |-> FALSE, n |-> 0])

\* ------------------------------------------------------------------------
\* Values: the generic tree of a MapSource and the contents of destination
\* slots.  Every value is a record of the same shape; k is its kind.
\*   nil     a nil interface (reflect.Invalid)
\*   bool, int, string        scalars of those Go types
\*   float   a float64, n holding ten times its value (25 is 2.5)
\*   seq     []interface{}, kids[i].val its elements
\*   map     map[string]interface{}, kids its entries
\*   ptr     an allocated pointer;  slice  a slice of length n;
\*   mapv    an allocated destination map
\* ------------------------------------------------------------------------
V(k, b, n, s, kids) == [k |-> k, b |-> b, n |-> n, s |-> s, kids |-> kids]
VNil == V("nil", FALSE, 0, <<>>, <<>>)
VBool(b) == V("bool", b, 0, <<>>, <<>>)
VInt(n) == V("int", FALSE, n, <<>>, <<>>)
VFloat(tenths) == V("float", FALSE, tenths, <<>>, <<>>)
VStr(s) == V("string", FALSE, 0, s, <<>>)
Kid(key, val) == [key |-> key, val |-> val]
VSeq(items) == V("seq", FALSE, 0, <<>>, [i \in 1..Len(items) |-> Kid(<<>>, items[i])])
VMap(entries) == V("map", FALSE, 0, <<>>, entries)
VPtr == V("ptr", FALSE, 0, <<>>, <<>>)
VSlice(n) == V("slice", FALSE, n, <<>>, <<>>)
VMapAlloc == V("mapv", FALSE, 0, <<>>, <<>>)

\* m[part] on a map[string]interface{}: nil when the key is missing
MapIndex(m, part) ==
    With(m.kids, LAMBDA kids : With(part, LAMBDA p :
        IF \E i \in 1..Len(kids) : kids[i].key = p
        THEN kids[CHOOSE i \in 1..Len(kids) : kids[i].key = p].val
        ELSE VNil))

\* ------------------------------------------------------------------------
\* Type descriptors of the decode targets
\* ------------------------------------------------------------------------
T(kind, elem, key, fields, reader) ==
    [kind |-> kind, elem |-> elem, key |-> key, fields |-> fields, reader |-> reader]
Field(name, tag, anonymous, type) ==
    [name |-> name, tag |-> tag, anonymous |-> anonymous, type |-> type]

sHost == <<"H","o","s","t">>
sOn == <<"O","n">>
sPort == <<"P","o","r","t">>
sName == <<"N","a","m","e">>
sTitle == <<"t","i","t","l","e">>
sSkip == <<"S","k","i","p">>
sSecret == <<"s","e","c","r","e","t">>
sInner == <<"i","n","n","e","r">>
sId == <<"I","d">>
sLevel == <<"L","e","v","e","l">>
sVal == <<"V","a","l">>
sNext == <<"N","e","x","t">>
sPtr == <<"P","t","r">>
sList == <<"L","i","s","t">>
sItems == <<"I","t","e","m","s">>
sM == <<"M">>
sC == <<"C">>
sV == <<"V">>
sAfter == <<"A","f","t","e","r">>
NoTag == <<>>

sRecs == <<"R","e","c","s">>
sFlags == <<"F","l","a","g","s">>
sCs == <<"C","s">>

TypeNames == {"bool", "int", "string", "*int", "[]int", "[]Leaf", "[]Custom", "map[string]int",
              "map[string]Leaf", "map[bool]int", "Tables",
              "Leaf", "inner", "Fields", "Node", "*Node", "Holder", "Custom", "WithCustom",
              "Customs"}

Types ==
    [t \in TypeNames |->
        CASE t = "bool"   -> T("bool", "", "", <<>>, FALSE)
          [] t = "int"    -> T("int", "", "", <<>>, FALSE)
          [] t = "string" -> T("string", "", "", <<>>, FALSE)
          [] t = "*int"   -> T("ptr", "int", "", <<>>, FALSE)
          [] t = "[]int"  -> T("slice", "int", "", <<>>, FALSE)
          [] t = "[]Leaf" -> T("slice", "Leaf", "", <<>>, FALSE)
          [] t = "[]Custom" -> T("slice", "Custom", "", <<>>, FALSE)
          [] t = "map[string]int" -> T("map", "int", "string", <<>>, FALSE)
          [] t = "map[string]Leaf" -> T("map", "Leaf", "string", <<>>, FALSE)
          [] t = "map[bool]int" -> T("map", "int", "bool", <<>>, FALSE)
          [] t = "Tables" -> T("struct", "", "",
                               <<Field(sRecs, NoTag, FALSE, "map[string]Leaf"),
                                 Field(sFlags, NoTag, FALSE, "map[bool]int")>>, FALSE)
          [] t = "Customs" -> T("struct", "", "",
                               <<Field(sCs, NoTag, FALSE, "[]Custom"),
                                 Field(sAfter, NoTag, FALSE, "string")>>, FALSE)
          [] t = "Leaf"   -> T("struct", "", "",
                               <<Field(sHost, NoTag, FALSE, "string"),
                                 Field(sOn, NoTag, FALSE, "bool"),
                                 Field(sPort, NoTag, FALSE, "int")>>, FALSE)
          [] t = "inner"  -> T("struct", "", "", <<Field(sId, NoTag, FALSE, "int")>>, FALSE)
          \* Name string `config:"title"`; Skip string `config:"-"`; secret string;
          \* inner (embedded struct of an unexported type); Level (embedded
          \* named integer type)
          [] t = "Fields" -> T("struct", "", "",
                               <<Field(sName, sTitle, FALSE, "string"),
                                 Field(sSkip, <<"-">>, FALSE, "string"),
                                 Field(sSecret, NoTag, FALSE, "string"),
                                 Field(sInner, NoTag, TRUE, "inner"),
                                 Field(sLevel, NoTag, TRUE, "int")>>, FALSE)
          [] t = "Node"   -> T("struct", "", "",
                               <<Field(sVal, NoTag, FALSE, "int"),
                                 Field(sNext, NoTag, FALSE, "*Node")>>, FALSE)
          [] t = "*Node"  -> T("ptr", "Node", "", <<>>, FALSE)
          [] t = "Holder" -> T("struct", "", "",
                               <<Field(sPtr, NoTag, FALSE, "*int"),
                                 Field(sList, NoTag, FALSE, "[]int"),
                                 Field(sItems, NoTag, FALSE, "[]Leaf"),
                                 Field(sM, NoTag, FALSE, "map[string]int")>>, FALSE)
          \* a record type with a ReadConfig method
          [] t = "Custom" -> T("struct", "", "", <<Field(sV, NoTag, FALSE, "string")>>, TRUE)
          [] t = "WithCustom" -> T("struct", "", "",
                               <<Field(sPort, NoTag, FALSE, "int"),
                                 Field(sC, NoTag, FALSE, "Custom"),
                                 Field(sAfter, NoTag, FALSE, "string")>>, FALSE)]

\* reflect.StructField.IsExported: the name starts with an upper-case letter
IsExported(field) == IsUpper(field.name[1])

\* the kind of the field's type after one pointer dereference
EmbeddedKind(field) ==
    IF Types[field.type].kind = "ptr" THEN Types[Types[field.type].elem].kind
    ELSE Types[field.type].kind

\* the logical key of a member; <<>> when the member is not visited
processStructField(field) ==
    IF field.tag = <<"-">> THEN <<>>
    ELSE IF field.anonymous /\ EmbeddedKind(field) # "struct" THEN <<>>
    ELSE IF ~field.anonymous /\ ~IsExported(field) THEN <<>>
    ELSE IF field.tag = <<>> THEN field.name
    ELSE field.tag

concatenateKeys(a, b) == Join(<<a, b>>, ".")

\* ------------------------------------------------------------------------
\* State
\* ------------------------------------------------------------------------
VARIABLES
    \* normalizer runs: the key, the convention, the results of one and two
    \* applications of Normalize, and the position of the run
    nKey, nConv, nOnce, nTwice, nPc,
    \* convention resolver: the sourceConventions table, the values of the
    \* <KIND>_CONVENTION environment variables, the outcome of the last
    \* New*Source call, the number of registry changes made so far, and the
    \* convention last passed to SetConventionForSourceType per kind
    sourceConventions, convEnv, built, convOps, runtimeSet,
    \* the tree a MapSource was constructed over (MapSource.data) and the
    \* process environment an EnvSource reads
    \* and the record type that document or environment was prepared for
    data, environ, schema,
    \* a Read/ReadKey call: its position (idle, running, done), its inputs,
    \* the traversals in progress (innermost first, each with its queue), the
    \* destination memory, the keyInitialized flags of the map entries being
    \* decoded and the value the call returned
    pc, call, frames, dest, keyInit, result,
    \* what happened during the call: the number of queue items processed,
    \* the error a custom decoder returned and the item count at that point,
    \* the last ReadKey a custom decoder made on the source it was handed,
    \* and the members that were enqueued
    steps, decoderErr, stepsAtErr, lastRead, visited,
    \* the factory: the sources, sourceTypeByExt and reverseOrderedSources
    \* tables, the types passed to RegisterSource so far, the values of
    \* CONFIG_PATH, CONFIG_CONVENTION and CONFIG_TYPE, the builders that
    \* succeed on this machine, the NewSource call in progress with its local
    \* variables, and the builder calls it has made
    sources, sourceTypeByExt, reverseOrderedSources, registrations, config, succeeds,
    factory, attempts

normVars == <<nKey, nConv, nOnce, nTwice, nPc>>
convVars == <<sourceConventions, convEnv, built, convOps, runtimeSet>>
srcVars == <<data, environ, schema>>
decVars == <<pc, call, frames, dest, keyInit, result, steps, decoderErr, stepsAtErr,
             lastRead, visited>>
facVars == <<sources, sourceTypeByExt, reverseOrderedSources, registrations, config, succeeds,
             factory, attempts>>
vars == <<normVars, convVars, srcVars, decVars, facVars>>

\* ------------------------------------------------------------------------
\* Convention resolver
\* ------------------------------------------------------------------------
EnvSourceType == "env"
YAMLSourceType == "yaml"
JSONSourceType == "json"
SourceKinds == {EnvSourceType, YAMLSourceType, JSONSourceType}

\* the keys of the normalizers map
normalizers == {SnakeCaseConvention, CamelCaseConvention, UpperSnakeCaseConvention}

\* convention names a caller, a registration or the environment may supply;
\* "" is the empty string (os.Getenv of an unset variable)
ConvNames == normalizers \cup {"", "kebab"}

\* initial contents of the sourceConventions map
DefaultSourceConventions ==
    [k \in SourceKinds |->
        CASE k = EnvSourceType  -> UpperSnakeCaseConvention
          [] k = YAMLSourceType -> SnakeCaseConvention
          [] k = JSONSourceType -> CamelCaseConvention]

stringOrDefault(key, defaultValue) == IF Len(key) = 0 THEN defaultValue ELSE key

\* normalizers[convention]; "nil" is the nil KeyNormalizer of a missing entry
GetNormalizer(convention) == IF convention \in normalizers THEN convention ELSE "nil"

\* GetConventionForSourceType with the table entry taken before the variable
GetConventionForSourceType_TableFirst(sourceType) ==
    stringOrDefault(sourceConventions[sourceType], convEnv[sourceType])

GetConventionForSourceType(sourceType) ==
    stringOrDefault(convEnv[sourceType], sourceConventions[sourceType])

\* NormalizerForSourceType without the test of the normalizer found
NormalizerForSourceType_NoCheck(convention, sourceType) ==
    LET conv == IF convention # "" THEN convention ELSE GetConventionForSourceType(sourceType)
        normalizer == GetNormalizer(conv)
    IN  [normalizer |-> normalizer, err |-> "nil", errConvention |-> "", convention |-> conv]

NormalizerForSourceType(convention, sourceType) ==
    LET conv == IF convention # "" THEN convention ELSE GetConventionForSourceType(sourceType)
        normalizer == GetNormalizer(conv)
    IN  IF normalizer = "nil"
        THEN [normalizer |-> "nil", err |-> "UnknownConventionError", errConvention |-> conv,
              convention |-> conv]
        ELSE [normalizer |-> normalizer, err |-> "nil", errConvention |-> "", convention |-> conv]

\* runtimeSet of a kind for which SetConventionForSourceType was never called
NeverSet == "<never set>"

NoSource == [made |-> FALSE, typ |-> "", normalizer |-> "nil"]
\* the registry as a New*Source call found it, for its kind
Seen(kind) == [env |-> convEnv[kind], table |-> sourceConventions[kind],
               runtime |-> runtimeSet[kind]]
NotBuilt == [called |-> FALSE, kind |-> "", explicit |-> "", source |-> NoSource,
             err |-> "nil", errConvention |-> "", seen |-> [env |-> "", table |-> "", runtime |-> ""]]

\* NewYAMLSource, NewJSONSource (MapSource) and NewEnvSource (EnvSource)
NewSourceOfKind(kind, convention) ==
    LET r == NormalizerForSourceType(convention, kind)
    IN  IF r.err # "nil"
        THEN [called |-> TRUE, kind |-> kind, explicit |-> convention, source |-> NoSource,
              err |-> r.err, errConvention |-> r.errConvention, seen |-> Seen(kind)]
        ELSE [called |-> TRUE, kind |-> kind, explicit |-> convention,
              source |-> [made |-> TRUE, typ |-> kind, normalizer |-> r.normalizer],
              err |-> "nil", errConvention |-> "", seen |-> Seen(kind)]

SetConventionForSourceType(sourceType, convention) ==
    /\ convOps < MaxConvOps
    /\ sourceConventions' = [sourceConventions EXCEPT ![sourceType] = convention]
    /\ runtimeSet' = [runtimeSet EXCEPT ![sourceType] = convention]
    /\ convOps' = convOps + 1
    /\ UNCHANGED <<convEnv, built, data, environ>>

\* the process environment changes <KIND>_CONVENTION
Setenv(sourceType, value) ==
    /\ convOps < MaxConvOps
    /\ convEnv' = [convEnv EXCEPT ![sourceType] = value]
    /\ convOps' = convOps + 1
    /\ UNCHANGED <<sourceConventions, runtimeSet, built, data, environ>>

NewYAMLSource(tree, convention) ==
    /\ built' = NewSourceOfKind(YAMLSourceType, convention)
    /\ data' = tree
    /\ UNCHANGED <<sourceConventions, convEnv, convOps, runtimeSet, environ>>

NewJSONSource(tree, convention) ==
    /\ built' = NewSourceOfKind(JSONSourceType, convention)
    /\ data' = tree
    /\ UNCHANGED <<sourceConventions, convEnv, convOps, runtimeSet, environ>>

NewEnvSource(convention) ==
    /\ built' = NewSourceOfKind(EnvSourceType, convention)
    /\ UNCHANGED <<sourceConventions, convEnv, convOps, runtimeSet, data>>

ConvInit ==
    /\ sourceConventions = DefaultSourceConventions
    /\ convEnv = [k \in SourceKinds |-> ""]
    /\ built = NotBuilt
    /\ convOps = 0
    /\ runtimeSet = [k \in SourceKinds |-> NeverSet]

SrcInit ==
    /\ data = VNil
    /\ environ = <<>>
    /\ schema = ""

\* ------------------------------------------------------------------------
\* Decoding: calls, frames and destination memory
\* ------------------------------------------------------------------------
\* Destination paths are sequences of steps from the caller's target
Fld(i) == i
Deref == 0
Idx(i) == 100 + i
KeySlot(e) == 200 + e
ValSlot(e) == 300 + e
Entry(e) == 400 + e

NoCallback == [kind |-> "none", map |-> <<>>, entry |-> 0]
\* a mapQueueItem (source, target, callback) or an envQueueItem (key, target);
\* ro is set when the target was obtained through an unexported member: the
\* reflect package refuses to set such a value or to return it as an interface
Item(source, key, target, type, callback) ==
    [source |-> source, key |-> key, target |-> target, type |-> type, callback |-> callback,
     ro |-> FALSE]

\* a running readMapPrimitive ("map") or readKey ("env") loop; absorb is set
\* when the caller of the loop discards the error it returns
Frame(variant, normalizer, queue, absorb) ==
    [variant |-> variant, normalizer |-> normalizer, queue |-> queue, absorb |-> absorb]

\* item.target.Elem().Field(i).Addr(): the item of a member
MemberItem(field, item) == [item EXCEPT !.ro = ~IsExported(field)]

NoCall == [op |-> "", key |-> <<>>, form |-> "", type |-> ""]
NoRead == [made |-> FALSE, prefix |-> <<>>, key |-> <<>>, physical |-> <<>>, normalizer |-> ""]

DecIdle ==
    /\ pc = "idle"
    /\ call = NoCall
    /\ frames = <<>>
    /\ dest = <<>>
    /\ keyInit = {}
    /\ result = "none"
    /\ steps = 0
    /\ decoderErr = "nil"
    /\ stepsAtErr = 0
    /\ lastRead = NoRead
    /\ visited = {}

\* the value stored at a destination path; VNil for a slot never written
Stored(path) == IF path \in DOMAIN dest THEN dest[path] ELSE VNil

\* pointer unwrapping: every pointer level of the target type is allocated
\* and the item moves to the innermost pointee
RECURSIVE Unwrap(_, _)
Unwrap(path, type) ==
    IF Types[type].kind = "ptr"
    THEN LET r == Unwrap(path \o <<Deref>>, Types[type].elem)
         IN  [path |-> r.path, type |-> r.type, allocs |-> {path} \cup r.allocs]
    ELSE [path |-> path, type |-> type, allocs |-> {}]

\* the writes of a step: a function from paths to the values stored
NoWrites == <<>>
AllocWrites(allocs) == [p \in allocs |-> VPtr]

\* what one loop iteration does: the slots it writes, the items it appends,
\* whether it reaches item.complete(), the error it returns from the loop
\* ("nil" when the loop goes on), the traversal it starts, the members it
\* enqueued, the error of a custom decoder and the decoder's ReadKey
Effect(writes, enq, complete, ret, push, members, derr, read) ==
    [writes |-> writes, enq |-> enq, complete |-> complete, ret |-> ret, push |-> push,
     members |-> members, derr |-> derr, read |-> read]
Skip == Effect(NoWrites, <<>>, FALSE, "nil", <<>>, {}, "nil", NoRead)

\* ------------------------------------------------------------------------
\* MapSource
\* ------------------------------------------------------------------------
RECURSIVE Descend(_, _)
Descend(value, parts) ==
    With(value, LAMBDA v : With(parts, LAMBDA ps :
        IF Len(ps) = 0 THEN v
        ELSE IF v.k = "map" THEN Descend(MapIndex(v, Head(ps)), Tail(ps))
        ELSE VNil))

\* getKeyFromMap: [fault, v]; it faults when the source has no normalizer
\* (a nil interface) or when the normalizer faults on the key
getKeyFromMap(normalizer, rootMap, key) ==
    IF key = <<>> THEN [fault |-> FALSE, v |-> rootMap]
    ELSE IF normalizer = "nil" \/ NormalizeFaults(normalizer, key) THEN [fault |-> TRUE, v |-> VNil]
    ELSE [fault |-> FALSE, v |-> Descend(rootMap, Split(Normalize(normalizer, key), "."))]

\* reflect.Type.ConvertibleTo from the dynamic type of a tree value to a
\* target type of the model
ConvertibleTo(v, targetKind) ==
    \/ v.k = "bool" /\ targetKind = "bool"
    \/ v.k \in {"int", "float"} /\ targetKind = "int"
    \/ v.k \in {"int", "string"} /\ targetKind = "string"

\* string(rune(n)) for the code points of digits and letters
RuneToString(n) ==
    IF n \in 48..57 THEN <<Digits[n - 47]>>
    ELSE IF n \in 65..90 THEN <<UpperLetters[n - 64]>>
    ELSE IF n \in 97..122 THEN <<LowerLetters[n - 96]>>
    ELSE <<"?">>

\* float64 to integer conversion truncates toward zero
Truncate(tenths) == IF tenths >= 0 THEN tenths \div 10 ELSE 0 - ((0 - tenths) \div 10)

\* reflect.Value.Convert
Convert(v, targetKind) ==
    CASE targetKind = "bool" -> VBool(v.b)
      [] targetKind = "int" -> IF v.k = "float" THEN VInt(Truncate(v.n)) ELSE VInt(v.n)
      [] targetKind = "string" -> IF v.k = "int" THEN VStr(RuneToString(v.n)) ELSE VStr(v.s)

\* what a custom decoder does with the source it is handed: at most one
\* ReadKey(key, &string) call, then it returns ret
Behaviour(calls, key, ret) == [calls |-> calls, key |-> key, ret |-> ret]
DecoderErrors == {"e1", "e2"}
Behaviours ==
    {Behaviour(FALSE, <<>>, r) : r \in {"nil"} \cup DecoderErrors}
    \cup {Behaviour(TRUE, k, r) : k \in {<<>>, <<"v">>}, r \in {"nil"} \cup DecoderErrors}

\* permutations of 1..n: the orders in which a Go map may be iterated
Perms(n) == {p \in [1..n -> 1..n] : \A i, j \in 1..n : i # j => p[i] # p[j]}

\* the record case of readMapPrimitive for a target without ReadConfig
MapStructFields(f, item, u) ==
    LET fs == Types[u.type].fields
        looked == [i \in 1..Len(fs) |->
                     IF processStructField(fs[i]) = <<>> THEN [fault |-> FALSE, v |-> VNil]
                     ELSE getKeyFromMap(f.normalizer, item.source, processStructField(fs[i]))]
        children == [i \in 1..Len(fs) |->
                       MemberItem(fs[i], Item(looked[i].v, <<>>, u.path \o <<Fld(i)>>, fs[i].type,
                                              NoCallback))]
        keep == {i \in 1..Len(fs) : processStructField(fs[i]) # <<>> /\ looked[i].v # VNil}
        order == SelectSeq([i \in 1..Len(fs) |-> i], LAMBDA i : i \in keep)
    IN  IF \E i \in 1..Len(fs) : looked[i].fault
        THEN Effect(AllocWrites(u.allocs), <<>>, FALSE, "panic", <<>>, {}, "nil", NoRead)
        ELSE Effect(AllocWrites(u.allocs), [j \in 1..Len(order) |-> children[order[j]]], TRUE,
                    "nil", <<>>, {<<u.type, i>> : i \in keep}, "nil", NoRead)

\* the record case with the error of ReadConfig dropped
MapCustomReader_Swallow(f, item, u, beh) ==
    Effect(AllocWrites(u.allocs), <<>>, TRUE, "nil", <<>>, {}, beh.ret, NoRead)

\* the record case for a target with ReadConfig: the decoder gets
\* &MapSource{typ: s.typ, data: m}, a source without normalizer
MapCustomReader(f, item, u, beh) ==
    LET looked == getKeyFromMap("nil", item.source, beh.key)
        read == [made |-> TRUE, prefix |-> <<>>, key |-> beh.key, physical |-> <<>>,
                 normalizer |-> "nil"]
    IN  IF beh.calls /\ looked.fault
        THEN Effect(AllocWrites(u.allocs), <<>>, FALSE, "panic", <<>>, {}, "nil", read)
        ELSE IF beh.ret # "nil"
        THEN Effect(AllocWrites(u.allocs), <<>>, FALSE, beh.ret, <<>>, {}, beh.ret,
                    IF beh.calls THEN read ELSE NoRead)
        ELSE Effect(AllocWrites(u.allocs), <<>>, TRUE, "nil", <<>>, {}, "nil",
                    IF beh.calls THEN read ELSE NoRead)

\* a floating-point source read by the boolean grammar: 1 is true, every
\* other number false
FloatToBool_Grammar(tenths) == tenths = 10

\* the boolean a floating-point source gives: item.source.Float() > 0
FloatToBool(tenths) == tenths > 0

\* the sequence case: the items of the elements, element i of the source
\* for slot i, with the null elements left out and the others moved up
MapElementItems_Compact(u, source) ==
    LET present == SelectSeq([i \in 1..Len(source.kids) |-> i],
                             LAMBDA i : source.kids[i].val # VNil)
    IN  [j \in 1..Len(present) |->
            Item(source.kids[present[j]].val, <<>>, u.path \o <<Idx(j)>>, Types[u.type].elem,
                 NoCallback)]

\* the sequence case: one item per index, source element i for slot i
MapElementItems(u, source) ==
    [i \in 1..Len(source.kids) |->
        Item(source.kids[i].val, <<>>, u.path \o <<Idx(i)>>, Types[u.type].elem, NoCallback)]

\* the key item of an entry, into a fresh key, and its value item, into a
\* fresh value
KeyItem(u, source, e) ==
    Item(VStr(source.kids[e].key), <<>>, u.path \o <<KeySlot(e)>>, Types[u.type].key,
         [kind |-> "key", map |-> u.path, entry |-> e])
ValueItem(u, source, e) ==
    Item(source.kids[e].val, <<>>, u.path \o <<ValSlot(e)>>, Types[u.type].elem,
         [kind |-> "value", map |-> u.path, entry |-> e])

\* the mapping case with the value item of an entry appended before its
\* key item
MapEntryItems_ValueFirst(u, source, perm) ==
    [j \in 1..(2 * Len(source.kids)) |->
        IF j % 2 = 1 THEN ValueItem(u, source, perm[(j + 1) \div 2])
        ELSE KeyItem(u, source, perm[(j + 1) \div 2])]

\* the mapping case: for every entry, in the order MapRange yields them, the
\* key item and then the value item
MapEntryItems(u, source, perm) ==
    [j \in 1..(2 * Len(source.kids)) |->
        IF j % 2 = 1 THEN KeyItem(u, source, perm[(j + 1) \div 2])
        ELSE ValueItem(u, source, perm[(j + 1) \div 2])]

\* an iteration of the loop of readMapPrimitive for an item that has a
\* source value: pointer unwrapping, direct conversion, dispatch on the kind
MapDispatch(f, item, beh, perm) ==
    LET u == Unwrap(item.target, item.type)
        kind == Types[u.type].kind
        allocs == AllocWrites(u.allocs)
        fail == Effect(allocs, <<>>, FALSE, "nil", <<>>, {}, "nil", NoRead)
        set(v) == Effect((u.path :> v) @@ allocs, <<>>, TRUE, "nil", <<>>, {}, "nil", NoRead)
        refused == Effect(NoWrites, <<>>, FALSE, "panic", <<>>, {}, "nil", NoRead)
    IN  IF item.ro /\ u.allocs # {} THEN refused
        ELSE IF ConvertibleTo(item.source, kind)
        THEN IF item.ro THEN refused ELSE set(Convert(item.source, kind))
        ELSE CASE kind = "bool" ->
                    IF item.source.k = "string"
                    THEN IF parseBool(item.source.s).ok
                         THEN set(VBool(parseBool(item.source.s).b))
                         ELSE fail
                    ELSE IF item.source.k = "float" THEN set(VBool(FloatToBool(item.source.n)))
                    ELSE fail
               [] kind = "slice" ->
                    IF item.source.k = "seq"
                    THEN Effect((u.path :> VSlice(Len(item.source.kids))) @@ allocs,
                                MapElementItems(u, item.source),
                                TRUE, "nil", <<>>, {}, "nil", NoRead)
                    ELSE fail
               [] kind = "map" ->
                    IF item.source.k = "map"
                    THEN Effect((u.path :> VMapAlloc) @@ allocs,
                                MapEntryItems(u, item.source, perm),
                                TRUE, "nil", <<>>, {}, "nil", NoRead)
                    ELSE fail
               [] kind = "struct" ->
                    IF item.source.k = "map"
                    THEN IF item.ro THEN refused
                         ELSE IF Types[u.type].reader
                         THEN MapCustomReader(f, item, u, beh)
                         ELSE MapStructFields(f, item, u)
                    ELSE fail
               [] OTHER -> fail

\* the loop with the pointers unwrapped before the test of the source value
MapIteration_UnwrapFirst(f, item, beh, perm) ==
    IF item.source = VNil
    THEN Effect(AllocWrites(Unwrap(item.target, item.type).allocs), <<>>, FALSE, "nil", <<>>, {},
                "nil", NoRead)
    ELSE MapDispatch(f, item, beh, perm)

\* one iteration of the loop of readMapPrimitive on the item at the head: an
\* item without source value is dropped before anything is allocated
MapIteration(f, item, beh, perm) ==
    IF item.source = VNil THEN Skip
    ELSE MapDispatch(f, item, beh, perm)

\* ------------------------------------------------------------------------
\* EnvSource
\* ------------------------------------------------------------------------
\* os.Getenv: the empty string for a variable that is not set
Getenv(name) == IF name \in DOMAIN environ THEN environ[name] ELSE <<>>

\* readEnvKey: [fault, value]
readEnvKey(normalizer, key) ==
    IF NormalizeFaults(normalizer, key) THEN [fault |-> TRUE, value |-> <<>>]
    ELSE [fault |-> FALSE, value |-> Getenv(Normalize(normalizer, key))]

\* JSON documents that occur as environment values, with the tree
\* encoding/json decodes them to; any other text is malformed JSON
jNull == <<"n","u","l","l">>
jEmptyObject == <<"{","}">>
jObject == <<"{","\"","a","\"",":","1","}">>
jObjects == <<"[","{","}","]">>
jLeaves == <<"[","{","\"","h","o","s","t","\"",":","\"","a","\"","}",",","n","u","l","l","]">>
jBroken == <<"[">>
JSONDocs ==
    (jNull :> VNil) @@ (jEmptyObject :> VMap(<<>>))
    @@ (jObject :> VMap(<<Kid(<<"a">>, VFloat(10))>>)) @@ (jObjects :> VSeq(<<VMap(<<>>)>>))
    @@ (jLeaves :> VSeq(<<VMap(<<Kid(<<"h","o","s","t">>, VStr(<<"a">>))>>), VNil>>))

\* json.Unmarshal into a []interface{}: [err, v]; null gives a nil slice
UnmarshalSlice(text) ==
    IF text \notin DOMAIN JSONDocs THEN [err |-> "json.SyntaxError", v |-> VNil]
    ELSE IF JSONDocs[text].k = "nil" THEN [err |-> "nil", v |-> VSeq(<<>>)]
    ELSE IF JSONDocs[text].k = "seq" THEN [err |-> "nil", v |-> JSONDocs[text]]
    ELSE [err |-> "json.UnmarshalTypeError", v |-> VNil]

\* json.Unmarshal into a map[interface{}]interface{}: a map with this key
\* type is not a valid target of a JSON object; null gives a nil map
UnmarshalMap(text) ==
    IF text \notin DOMAIN JSONDocs THEN [err |-> "json.SyntaxError", v |-> VNil]
    ELSE IF JSONDocs[text].k = "nil" THEN [err |-> "nil", v |-> VMap(<<>>)]
    ELSE [err |-> "json.UnmarshalTypeError", v |-> VNil]

\* readEnvPrimitive on a string, integer or boolean target: [ok, v]; every
\* other kind but the mapping (decoded by its caller) is unsupported
readEnvPrimitive(value, kind) ==
    CASE kind = "string" -> [ok |-> TRUE, v |-> VStr(value)]
      [] kind = "int" -> [ok |-> Atoi(value).ok, v |-> VInt(Atoi(value).n)]
      [] kind = "bool" -> [ok |-> parseBool(value).ok, v |-> VBool(parseBool(value).b)]
      [] OTHER -> [ok |-> FALSE, v |-> VNil]

KeyDepth(key) == IF key = <<>> THEN 0 ELSE Len(Split(key, "."))

\* readEnvSlice without the trimming of the pieces
readEnvSlice_Untrimmed(value, u) ==
    LET allocs == AllocWrites(u.allocs)
        pieces == Split(value, ",")
        n == Len(pieces)
        decoded == [i \in 1..n |-> readEnvPrimitive(pieces[i], Types[Types[u.type].elem].kind)]
        good == {i \in 1..n : decoded[i].ok}
    IN  IF Len(value) > 0
        THEN Effect([p \in {u.path \o <<Idx(i)>> : i \in good} |-> decoded[p[Len(p)] - 100].v]
                    @@ (u.path :> VSlice(n)) @@ allocs,
                    <<>>, FALSE, "nil", <<>>, {}, "nil", NoRead)
        ELSE Effect((u.path :> VSlice(0)) @@ allocs, <<>>, FALSE, "nil", <<>>, {}, "nil", NoRead)

\* readEnvSlice
readEnvSlice(value, u) ==
    LET allocs == AllocWrites(u.allocs)
        elem == Types[u.type].elem
    IN  IF Len(value) > 0
        THEN IF Types[elem].kind \in {"struct", "slice"}
             THEN LET parsed == UnmarshalSlice(value)
                      json == NormalizerForSourceType("", JSONSourceType)
                  IN  IF parsed.err # "nil"
                      THEN Effect(allocs, <<>>, FALSE, parsed.err, <<>>, {}, "nil", NoRead)
                      ELSE IF json.err # "nil"
                      THEN Effect(allocs, <<>>, FALSE, json.err, <<>>, {}, "nil", NoRead)
                      ELSE Effect(allocs, <<>>, FALSE, "nil",
                                  <<Frame("map", json.normalizer,
                                          <<Item(parsed.v, <<>>, u.path, u.type, NoCallback)>>,
                                          FALSE)>>,
                                  {}, "nil", NoRead)
             ELSE LET pieces == Split(value, ",")
                      n == Len(pieces)
                      decoded == [i \in 1..n |-> readEnvPrimitive(TrimSpace(pieces[i]), Types[elem].kind)]
                      good == {i \in 1..n : decoded[i].ok}
                  IN  Effect([p \in {u.path \o <<Idx(i)>> : i \in good} |->
                                 decoded[p[Len(p)] - 100].v]
                             @@ (u.path :> VSlice(n)) @@ allocs,
                             <<>>, FALSE, "nil", <<>>, {}, "nil", NoRead)
        ELSE Effect((u.path :> VSlice(0)) @@ allocs, <<>>, FALSE, "nil", <<>>, {}, "nil", NoRead)

\* PrefixedSource.ReadKey: the key handed to the wrapped source
PrefixedKey(prefix, key) == prefix \o <<".">> \o key

\* the record case of readKey for a target with ReadConfig: the decoder gets
\* PrefixSourceWith(item.key, s); its ReadKey(k, &V) runs readKey on a string
EnvCustomReader(f, item, u, beh) ==
    LET key == PrefixedKey(item.key, beh.key)
        got == readEnvKey(f.normalizer, key)
        read == [made |-> TRUE, prefix |-> item.key, key |-> beh.key,
                 physical |-> IF got.fault THEN <<>> ELSE Normalize(f.normalizer, key),
                 normalizer |-> f.normalizer]
        allocs == AllocWrites(u.allocs)
        writes == IF beh.calls THEN (u.path \o <<Fld(1)>> :> VStr(got.value)) @@ allocs
                  ELSE allocs
    IN  IF beh.calls /\ got.fault
        THEN Effect(allocs, <<>>, FALSE, "panic", <<>>, {}, "nil", read)
        ELSE Effect(writes, <<>>, FALSE, beh.ret, <<>>, {}, beh.ret,
                    IF beh.calls THEN read ELSE NoRead)

\* the record case of readKey for a target without ReadConfig.  A member of
\* the item's own type met at depth MaxDepth is enqueued as the item itself:
\* the levels below MaxDepth are folded onto the last one.
EnvStructFields(f, item, u) ==
    LET fs == Types[u.type].fields
        keep == {i \in 1..Len(fs) : processStructField(fs[i]) # <<>>}
        order == SelectSeq([i \in 1..Len(fs) |-> i], LAMBDA i : i \in keep)
        absoluteKey(i) == IF Len(item.key) > 0
                          THEN concatenateKeys(item.key, processStructField(fs[i]))
                          ELSE processStructField(fs[i])
        child(i) == IF KeyDepth(item.key) >= MaxDepth /\ fs[i].type = item.type
                    THEN item
                    ELSE MemberItem(fs[i], Item(VNil, absoluteKey(i), u.path \o <<Fld(i)>>,
                                                fs[i].type, NoCallback))
    IN  Effect(AllocWrites(u.allocs), [j \in 1..Len(order) |-> child(order[j])], FALSE, "nil",
               <<>>, {<<u.type, i>> : i \in keep}, "nil", NoRead)

\* one iteration of the loop of readKey on the item at the head
EnvIteration(f, item, beh) ==
    LET u == Unwrap(item.target, item.type)
        kind == Types[u.type].kind
        allocs == AllocWrites(u.allocs)
        got == readEnvKey(f.normalizer, item.key)
        fail == Effect(allocs, <<>>, FALSE, "nil", <<>>, {}, "nil", NoRead)
        panic == Effect(allocs, <<>>, FALSE, "panic", <<>>, {}, "nil", NoRead)
        refused == Effect(NoWrites, <<>>, FALSE, "panic", <<>>, {}, "nil", NoRead)
    IN  IF item.ro /\ u.allocs # {} THEN refused
        ELSE
        CASE kind = "slice" ->
                IF got.fault THEN panic ELSE readEnvSlice(TrimSpace(got.value), u)
          [] kind = "struct" ->
                IF item.ro THEN refused
                ELSE IF Types[u.type].reader
                THEN EnvCustomReader(f, item, u, beh)
                ELSE EnvStructFields(f, item, u)
          [] kind = "map" ->
                IF got.fault THEN panic
                ELSE LET parsed == UnmarshalMap(got.value)
                         json == NormalizerForSourceType("", JSONSourceType)
                     IN  IF parsed.err # "nil" \/ json.err # "nil" THEN fail
                         ELSE Effect(allocs, <<>>, FALSE, "nil",
                                     <<Frame("map", json.normalizer,
                                             <<Item(parsed.v, <<>>, u.path, u.type, NoCallback)>>,
                                             TRUE)>>,
                                     {}, "nil", NoRead)
          [] OTHER ->
                IF got.fault THEN panic
                ELSE IF readEnvPrimitive(got.value, kind).ok
                THEN Effect((u.path :> readEnvPrimitive(got.value, kind).v) @@ allocs,
                            <<>>, FALSE, "nil", <<>>, {}, "nil", NoRead)
                ELSE fail

\* ------------------------------------------------------------------------
\* The documents and environments the sources are constructed over
\* ------------------------------------------------------------------------
\* the record types decoded into
StructTargets == {"Leaf", "Fields", "Node", "Holder", "WithCustom", "Customs", "Custom", "Tables"}

\* the key under which a document written for the type holds a member: its
\* logical key, or the key it would have if it were visited
FieldSourceKey(field) ==
    IF processStructField(field) # <<>> THEN processStructField(field)
    ELSE IF field.tag \notin {<<>>, <<"-">>} THEN field.tag
    ELSE field.name

sA == <<"a">>
sX == <<"x">>

\* a tree value every member of the type decodes from
RECURSIVE Good(_, _, _)
Good(type, conv, depth) ==
    LET t == Types[type]
    IN  CASE t.kind = "string" -> VStr(sA)
          [] t.kind = "bool" -> VStr(<<"o","n">>)
          [] t.kind = "int" -> VInt(7)
          [] t.kind = "ptr" -> IF depth = 0 THEN VNil ELSE Good(t.elem, conv, depth)
          [] t.kind = "slice" ->
                IF Types[t.elem].kind = "struct"
                THEN VSeq(<<Good(t.elem, conv, depth), VNil>>)
                ELSE VSeq(<<VNil, VStr(sX), VInt(1)>>)
          [] t.kind = "map" ->
                IF Types[t.elem].kind = "struct"
                THEN VMap(<<Kid(sA, Good(t.elem, conv, 1)), Kid(<<"b">>, VNil)>>)
                ELSE IF t.key = "bool"
                THEN VMap(<<Kid(<<"o","n">>, VInt(1)), Kid(sX, VInt(2)),
                            Kid(<<"n","o">>, VStr(sX))>>)
                ELSE VMap(<<Kid(sA, VInt(1)), Kid(<<"b">>, VStr(sX))>>)
          [] t.kind = "struct" ->
                IF depth = 0 THEN VMap(<<>>)
                ELSE VMap([i \in 1..Len(t.fields) |->
                            Kid(Normalize(conv, FieldSourceKey(t.fields[i])),
                                Good(t.fields[i].type, conv, depth - 1))])

VAbsent == V("absent", FALSE, 0, <<>>, <<>>)

\* the values a document may hold for a member of the type
Cands(type, conv) ==
    LET t == Types[type]
    IN  CASE t.kind = "string" -> {VAbsent, VNil, VStr(sA), VInt(65)}
          [] t.kind = "int" -> {VAbsent, VNil, VInt(7), VStr(sX), VFloat(15)}
          [] t.kind = "bool" -> {VAbsent, VNil, VStr(<<"o","n">>), VStr(<<"m","a","y","b","e">>),
                                 VFloat(20), VFloat(10), VFloat(-10), VInt(1)}
          [] t.kind = "slice" -> {VAbsent, VNil, Good(type, conv, 1), VStr(sX)}
          [] OTHER -> {VAbsent, VNil, Good(type, conv, 2)}

RECURSIVE FieldChoices(_, _, _)
FieldChoices(type, conv, i) ==
    LET fs == Types[type].fields
    IN  IF i > Len(fs) THEN {<<>>}
        ELSE LET opts == IF processStructField(fs[i]) = <<>>
                         THEN {VAbsent, Good(fs[i].type, conv, 1)}
                         ELSE Cands(fs[i].type, conv)
             IN  {(IF v = VAbsent THEN <<>>
                   ELSE <<Kid(Normalize(conv, FieldSourceKey(fs[i])), v)>>) \o rest :
                     v \in opts, rest \in FieldChoices(type, conv, i + 1)}

\* the documents written for a record type under a convention
TreesFor(type, conv) == {VMap(kids) : kids \in FieldChoices(type, conv, 1)}

\* the environment values a variable read into the type may hold
EnvCands(type) ==
    LET t == Types[type]
    IN  CASE t.kind = "string" -> {<<>>, sA}
          [] t.kind = "int" -> {<<>>, <<"1","2">>, sX}
          [] t.kind = "bool" -> {<<>>, <<"o","n">>, <<"m","a","y","b","e">>}
          [] t.kind = "slice" ->
                IF Types[t.elem].kind = "struct"
                THEN IF Types[t.elem].reader THEN {<<>>, jObjects, jBroken}
                     ELSE {<<>>, jLeaves, jBroken, jEmptyObject, jNull}
                ELSE {<<>>, <<"1",","," ","x",","," ","2">>, <<" ","7"," ">>, <<" ">>}
          [] t.kind = "map" -> {<<>>, jEmptyObject, jObject, jNull}
          [] OTHER -> {<<>>}

Leaf(key, type) == [key |-> key, type |-> type]

\* the logical keys a decode into the type may look up, each with the type
\* read from it; a custom decoder looks up the key "v"
RECURSIVE FlatLeaves(_, _, _)
FlatLeaves(type, key, depth) ==
    LET u == Unwrap(<<>>, type)
        t == Types[u.type]
        abs(k) == IF Len(key) > 0 THEN concatenateKeys(key, k) ELSE k
    IN  IF t.kind # "struct" THEN {Leaf(key, u.type)}
        ELSE IF t.reader THEN {Leaf(PrefixedKey(key, <<"v">>), "string")}
        ELSE IF depth = 0 THEN {}
        ELSE UNION {IF processStructField(t.fields[i]) = <<>>
                    THEN {Leaf(abs(FieldSourceKey(t.fields[i])), "string")}
                    ELSE FlatLeaves(t.fields[i].type, abs(processStructField(t.fields[i])), depth - 1) :
                        i \in 1..Len(t.fields)}

RECURSIVE EnvChoices(_, _)
EnvChoices(leaves, conv) ==
    IF leaves = {} THEN {<<>>}
    ELSE LET l == CHOOSE l \in leaves : TRUE
         IN  {(Normalize(conv, l.key) :> v) @@ rest :
                 v \in EnvCands(l.type), rest \in EnvChoices(leaves \ {l}, conv)}

\* the environments prepared for a record type under a convention
EnvsFor(type, conv) ==
    EnvChoices({l \in FlatLeaves(type, <<>>, MaxDepth) : ~NormalizeFaults(conv, l.key)}, conv)

\* ------------------------------------------------------------------------
\* Read and ReadKey
\* ------------------------------------------------------------------------
\* what the caller passes as target: an untyped nil, a value that is not a
\* pointer, a nil pointer, or a pointer to a zero value of a type
TargetForms == {"nil", "value", "nilptr", "ptr"}

ErrNotPointer == "target must be a non-nil pointer"
ErrNotStruct == "target must be a struct"

Variant == IF built.source.typ = EnvSourceType THEN "env" ELSE "map"

Start(item) ==
    /\ frames' = <<Frame(Variant, built.source.normalizer, <<item>>, FALSE)>>
    /\ pc' = "running"
    /\ result' = "none"

Finish(r) ==
    /\ frames' = <<>>
    /\ pc' = "done"
    /\ result' = r

\* Read without the test that the pointee is a record
Read_NoStructCheck(form, type) ==
    /\ pc = "idle"
    /\ built.source.made
    /\ call' = [op |-> "Read", key |-> <<>>, form |-> form, type |-> type]
    /\ IF form # "ptr" THEN Finish(ErrNotPointer)
       ELSE Start(Item(IF Variant = "map" THEN data ELSE VNil, <<>>, <<>>, type, NoCallback))
    /\ UNCHANGED <<dest, keyInit, steps, decoderErr, stepsAtErr, lastRead, visited>>

\* MapSource.Read and EnvSource.Read
Read(form, type) ==
    /\ pc = "idle"
    /\ built.source.made
    /\ call' = [op |-> "Read", key |-> <<>>, form |-> form, type |-> type]
    /\ IF form # "ptr" THEN Finish(ErrNotPointer)
       ELSE IF Types[type].kind # "struct" THEN Finish(ErrNotStruct)
       ELSE Start(Item(IF Variant = "map" THEN data ELSE VNil, <<>>, <<>>, type, NoCallback))
    /\ UNCHANGED <<dest, keyInit, steps, decoderErr, stepsAtErr, lastRead, visited>>

\* MapSource.ReadKey and EnvSource.ReadKey
ReadKey(key, form, type) ==
    /\ pc = "idle"
    /\ built.source.made
    /\ call' = [op |-> "ReadKey", key |-> key, form |-> form, type |-> type]
    /\ IF form # "ptr" THEN Finish(ErrNotPointer)
       ELSE IF Variant = "env" THEN Start(Item(VNil, key, <<>>, type, NoCallback))
       ELSE LET val == getKeyFromMap(built.source.normalizer, data, key)
            IN  IF val.fault THEN Finish("panic")
                ELSE Start(Item(val.v, <<>>, <<>>, type, NoCallback))
    /\ UNCHANGED <<dest, keyInit, steps, decoderErr, stepsAtErr, lastRead, visited>>

\* the slots under a path
Under(d, pre) == {p \in DOMAIN d : Len(p) >= Len(pre) /\ SubSeq(p, 1, Len(pre)) = pre}

\* the values under pre, copied under to
Copied(d, pre, to) ==
    [q \in {to \o SubSeq(p, Len(pre) + 1, Len(p)) : p \in Under(d, pre)} |->
        d[pre \o SubSeq(q, Len(to) + 1, Len(q))]]

\* newMap.SetMapIndex(newKeyPtr.Elem(), newValuePtr.Elem()): the entry gets
\* the key and the value as they are now
SetMapIndex(d, map, e) ==
    Copied(d, map \o <<ValSlot(e)>>, map \o <<Entry(e), 1>>)
    @@ Copied(d, map \o <<KeySlot(e)>>, map \o <<Entry(e), 0>>)
    @@ (map \o <<Entry(e)>> :> V("entry", FALSE, 0, <<>>, <<>>))
    @@ d

\* the frames left when the innermost loop returns an error: every loop
\* returns it to its caller until a caller discards it
RECURSIVE Unwind(_)
Unwind(fs) ==
    IF fs = <<>> THEN <<>>
    ELSE IF Head(fs).absorb THEN Tail(fs)
    ELSE Unwind(Tail(fs))

Absorbed(fs) == \E i \in 1..Len(fs) : fs[i].absorb

Counted(n) == IF n < MaxSteps THEN n + 1 ELSE n

\* the callback of a value item without the test of keyInitialized
Commits_Unguarded(cb) == cb.kind = "value"

\* the callback of a value item stores the entry if keyInitialized is set
Commits(cb) == cb.kind = "value" /\ <<cb.map, cb.entry>> \in keyInit

\* the state after one loop iteration with the given effect
Apply(eff) ==
    LET f == Head(frames)
        item == Head(f.queue)
        written == eff.writes @@ dest
        cb == item.callback
        commits == eff.complete /\ Commits(cb)
        queue == Tail(f.queue) \o eff.enq
    IN  /\ dest' = IF commits THEN SetMapIndex(written, cb.map, cb.entry) ELSE written
        /\ keyInit' = IF eff.complete /\ cb.kind = "key"
                      THEN keyInit \cup {<<cb.map, cb.entry>>} ELSE keyInit
        /\ steps' = Counted(steps)
        /\ decoderErr' = IF eff.derr # "nil" THEN eff.derr ELSE decoderErr
        /\ stepsAtErr' = IF eff.derr # "nil" THEN Counted(steps) ELSE stepsAtErr
        /\ lastRead' = IF eff.read.made THEN eff.read ELSE lastRead
        /\ visited' = visited \cup eff.members
        /\ IF eff.ret = "panic" THEN Finish("panic")
           ELSE IF eff.ret # "nil"
           THEN IF Absorbed(frames)
                THEN /\ frames' = Unwind(frames)
                     /\ UNCHANGED <<pc, result>>
                ELSE Finish(eff.ret)
           ELSE /\ frames' = eff.push \o <<[f EXCEPT !.queue = queue]>> \o Tail(frames)
                /\ UNCHANGED <<pc, result>>
        /\ UNCHANGED call

Dispatching == pc = "running" /\ frames # <<>> /\ Head(frames).queue # <<>>

HeadItem == Head(Head(frames).queue)

\* the behaviours to consider for the item at the head: those of its custom
\* decoder, if it has one
HeadBehaviours ==
    IF Types[Unwrap(HeadItem.target, HeadItem.type).type].reader THEN Behaviours
    ELSE {Behaviour(FALSE, <<>>, "nil")}

\* one iteration of the loop of readMapPrimitive
MapStep ==
    /\ Dispatching
    /\ Head(frames).variant = "map"
    /\ \E beh \in HeadBehaviours :
       \E perm \in Perms(IF HeadItem.source.k = "map" THEN Len(HeadItem.source.kids) ELSE 0) :
       \E eff \in {MapIteration(Head(frames), HeadItem, beh, perm)} : Apply(eff)

\* one iteration of the loop of readKey
EnvStep ==
    /\ Dispatching
    /\ Head(frames).variant = "env"
    /\ \E beh \in HeadBehaviours :
       \E eff \in {EnvIteration(Head(frames), HeadItem, beh)} : Apply(eff)

\* the queue is empty: the loop ends and the traversal returns nil
Return ==
    /\ pc = "running"
    /\ frames # <<>>
    /\ Head(frames).queue = <<>>
    /\ IF Len(frames) = 1 THEN Finish("nil")
       ELSE /\ frames' = Tail(frames)
            /\ UNCHANGED <<pc, result>>
    /\ UNCHANGED <<call, dest, keyInit, steps, decoderErr, stepsAtErr, lastRead, visited>>

\* the targets a call is made with: the type the source was prepared for,
\* a member of it under its logical key, and a key the source does not hold
sMiss == <<"m","i","s","s">>
KeyedTargets ==
    {<<<<>>, schema>>, <<sMiss, "string">>}
    \cup {<<processStructField(Types[schema].fields[i]), Types[schema].fields[i].type>> :
            i \in {i \in 1..Len(Types[schema].fields) :
                     processStructField(Types[schema].fields[i]) # <<>>}}

\* ------------------------------------------------------------------------
\* Normalizer runs
\* ------------------------------------------------------------------------
KeyChars == {"a", "B", "2", "."}

\* logical keys: dot-separated, non-empty segments of letters and digits
NormKeys ==
    {k \in UNION {[1..n -> KeyChars] : n \in 1..MaxKeyLen} :
        \A i \in 1..Len(Split(k, ".")) : Split(k, ".")[i] # <<>>}

NormIdle ==
    /\ nKey = <<>>
    /\ nConv = ""
    /\ nOnce = <<>>
    /\ nTwice = <<>>
    /\ nPc = "idle"

NormInit ==
    /\ nKey \in NormKeys
    /\ nConv \in normalizers
    /\ nOnce = <<>>
    /\ nTwice = <<>>
    /\ nPc = "start"

NormalizeOnce ==
    /\ nPc = "start"
    /\ nOnce' = Normalize(nConv, nKey)
    /\ nPc' = "once"
    /\ UNCHANGED <<nKey, nConv, nTwice>>

NormalizeTwice ==
    /\ nPc = "once"
    /\ nTwice' = Normalize(nConv, nOnce)
    /\ nPc' = "twice"
    /\ UNCHANGED <<nKey, nConv, nOnce>>

\* ------------------------------------------------------------------------
\* The factory: RegisterSource and NewSource
\* ------------------------------------------------------------------------
\* the source types as text, and the type of a registered source
tEnv == <<"e","n","v">>
tYAML == <<"y","a","m","l">>
tJSON == <<"j","s","o","n">>
tX == <<"x">>

\* a SourceBuilder is known by its name; "nil" is the zero value a missing
\* entry of sources yields
BuiltIn == {"BuildEnvSource", "BuildYAMLSource", "BuildJSONSource"}
Registrable == {"b1", "b2"}
Builders == BuiltIn \cup Registrable

\* the error a failing builder returns
ErrorOf(builder) == [from |-> builder]
NoError == [from |-> "nil"]

\* the package-level tables as declared, and no call made
FacTables ==
    /\ sources = (tEnv :> "BuildEnvSource") @@ (tYAML :> "BuildYAMLSource")
                 @@ (tJSON :> "BuildJSONSource")
    /\ sourceTypeByExt = (<<".">> \o tYAML :> tYAML) @@ (<<".","y","m","l">> :> tYAML)
                         @@ (<<".">> \o tJSON :> tJSON) @@ (<<".">> \o tEnv :> tEnv)
    /\ reverseOrderedSources = <<tEnv, tJSON, tYAML>>
    /\ registrations = <<>>
    /\ factory = [pc |-> "idle"]
    /\ attempts = <<>>

FacIdle ==
    /\ FacTables
    /\ config = [path |-> <<>>, convention |-> "", type |-> <<>>]
    /\ succeeds = {}

\* the paths, conventions and types the environment or the caller supplies
PathsOfEnv == {<<>>, <<".","e","n","v",".","d">>}
TypesOfEnv == {<<>>, <<"J","S","O","N">>, tX}
PathsOfOptions == {<<>>, <<"a",".","x">>, <<"d",".","a","/","c">>}
TypesOfOptions == {<<>>, tYAML, <<"t","o","m","l">>}

\* the process environment and the files of the machine are given
FacInit ==
    /\ FacTables
    /\ config \in [path : PathsOfEnv, convention : {"", SnakeCaseConvention}, type : TypesOfEnv]
    /\ succeeds \in SUBSET Builders

\* reverseOrderedSources with the new type in front
RegisterSource_Prepend(typ, builder) ==
    /\ factory.pc = "idle"
    /\ Len(registrations) < MaxRegistered
    /\ sources' = (typ :> builder) @@ sources
    /\ sourceTypeByExt' = ((<<".">> \o typ) :> typ) @@ sourceTypeByExt
    /\ reverseOrderedSources' = <<typ>> \o reverseOrderedSources
    /\ registrations' = Append(registrations, typ)
    /\ UNCHANGED <<config, succeeds, factory, attempts>>

RegisterSource(typ, builder) ==
    /\ factory.pc = "idle"
    /\ Len(registrations) < MaxRegistered
    /\ sources' = (typ :> builder) @@ sources
    /\ sourceTypeByExt' = ((<<".">> \o typ) :> typ) @@ sourceTypeByExt
    /\ reverseOrderedSources' = Append(reverseOrderedSources, typ)
    /\ registrations' = Append(registrations, typ)
    /\ UNCHANGED <<config, succeeds, factory, attempts>>

HasPrefix(s, prefix) == Len(s) >= Len(prefix) /\ SubSeq(s, 1, Len(prefix)) = prefix

\* filepath.Ext: the suffix from the last dot of the last element of the path
Ext(path) ==
    LET dots == {i \in 1..Len(path) : path[i] = "." /\ \A j \in i..Len(path) : path[j] # "/"}
    IN  IF dots = {} THEN <<>>
        ELSE SubSeq(path, CHOOSE i \in dots : \A j \in dots : j <= i, Len(path))

inferSourceTypeFromFilePath(filePath) ==
    LET ext == Ext(filePath)
        typ == IF HasPrefix(filePath, <<".">> \o tEnv) THEN sourceTypeByExt[<<".">> \o tEnv]
               ELSE IF ext \in DOMAIN sourceTypeByExt THEN sourceTypeByExt[ext]
               ELSE ext
    IN  IF typ \in DOMAIN sources THEN typ ELSE <<>>

NoOptions == [FilePath |-> <<>>, Convention |-> "", SourceType |-> <<>>]
OptionsGiven ==
    [FilePath : PathsOfOptions, Convention : {"", CamelCaseConvention}, SourceType : TypesOfOptions]

\* NewSource with the Options field tested before the environment variable
NewSource_OptionsFirst(given, opts) ==
    /\ factory.pc = "idle"
    /\ LET FilePath == IF given THEN stringOrDefault(opts.FilePath, config.path) ELSE config.path
           Convention == IF given THEN stringOrDefault(opts.Convention, config.convention)
                         ELSE config.convention
           sourceType == IF given THEN stringOrDefault(opts.SourceType, ToLower(config.type))
                         ELSE ToLower(config.type)
           inferredType == inferSourceTypeFromFilePath(FilePath)
           subsetSources == IF Len(sourceType) > 0 THEN <<sourceType>>
                            ELSE IF Len(FilePath) > 0 /\ Len(inferredType) > 0
                            THEN <<inferredType>>
                            ELSE reverseOrderedSources
       IN  factory' = [pc |-> "loop", given |-> given, opts |-> opts,
                       sourceOptions |-> [FilePath |-> FilePath, Convention |-> Convention],
                       sourceType |-> sourceType, inferredType |-> inferredType,
                       subsetSources |-> subsetSources, i |-> Len(subsetSources),
                       source |-> "nil", err |-> NoError]
    /\ UNCHANGED <<sources, sourceTypeByExt, reverseOrderedSources, registrations, config,
                   succeeds, attempts>>

\* NewSource up to its loop: the options and the list of types to try
NewSource(given, opts) ==
    /\ factory.pc = "idle"
    /\ LET FilePath == IF given THEN stringOrDefault(config.path, opts.FilePath) ELSE config.path
           Convention == IF given THEN stringOrDefault(config.convention, opts.Convention)
                         ELSE config.convention
           sourceType == IF given THEN stringOrDefault(ToLower(config.type), opts.SourceType)
                         ELSE ToLower(config.type)
           inferredType == inferSourceTypeFromFilePath(FilePath)
           subsetSources == IF Len(sourceType) > 0 THEN <<sourceType>>
                            ELSE IF Len(FilePath) > 0 /\ Len(inferredType) > 0
                            THEN <<inferredType>>
                            ELSE reverseOrderedSources
       IN  factory' = [pc |-> "loop", given |-> given, opts |-> opts,
                       sourceOptions |-> [FilePath |-> FilePath, Convention |-> Convention],
                       sourceType |-> sourceType, inferredType |-> inferredType,
                       subsetSources |-> subsetSources, i |-> Len(subsetSources),
                       source |-> "nil", err |-> NoError]
    /\ UNCHANGED <<sources, sourceTypeByExt, reverseOrderedSources, registrations, config,
                   succeeds, attempts>>

\* one iteration of the loop of NewSource: the builder of subsetSources[i]
\* is called; calling the nil builder of an unknown type panics
TryBuilder ==
    /\ factory.pc = "loop"
    /\ factory.i >= 1
    /\ LET typ == factory.subsetSources[factory.i]
           builder == IF typ \in DOMAIN sources THEN sources[typ] ELSE "nil"
       IN  IF builder = "nil"
           THEN /\ factory' = [factory EXCEPT !.pc = "panic"]
                /\ UNCHANGED attempts
           ELSE /\ attempts' = Append(attempts, [typ |-> typ, builder |-> builder,
                                                 opts |-> factory.sourceOptions])
                /\ factory' = IF builder \in succeeds
                              THEN [factory EXCEPT !.pc = "done", !.source = builder]
                              ELSE [factory EXCEPT !.i = @ - 1, !.err = ErrorOf(builder)]
    /\ UNCHANGED <<sources, sourceTypeByExt, reverseOrderedSources, registrations, config,
                   succeeds>>

\* every builder failed: return nil, err
ReturnError ==
    /\ factory.pc = "loop"
    /\ factory.i < 1
    /\ factory' = [factory EXCEPT !.pc = "done"]
    /\ UNCHANGED <<sources, sourceTypeByExt, reverseOrderedSources, registrations, config,
                   succeeds, attempts>>

\* ------------------------------------------------------------------------
\* Specifications
\* ------------------------------------------------------------------------
InitNorm == NormInit /\ ConvInit /\ SrcInit /\ DecIdle /\ FacIdle
NextNorm == (NormalizeOnce \/ NormalizeTwice) /\ UNCHANGED <<convVars, srcVars, decVars, facVars>>
SpecNorm == InitNorm /\ [][NextNorm]_vars

InitConv == NormIdle /\ ConvInit /\ SrcInit /\ DecIdle /\ FacIdle
NextConv ==
    /\ UNCHANGED <<normVars, decVars, schema, facVars>>
    /\ \/ \E k \in SourceKinds, c \in ConvNames : SetConventionForSourceType(k, c)
       \/ \E k \in SourceKinds, c \in ConvNames : Setenv(k, c)
       \/ \E c \in ConvNames : NewYAMLSource(VNil, c)
       \/ \E c \in ConvNames : NewJSONSource(VNil, c)
       \/ \E c \in ConvNames : NewEnvSource(c) /\ UNCHANGED environ
SpecConv == InitConv /\ [][NextConv]_vars

\* Decoding: a source is constructed over a document or an environment, the
\* JSON convention may be changed, and one Read or ReadKey call is made.
Constructing == pc = "idle" /\ ~built.called
Resolved(convention, kind) == NormalizerForSourceType(convention, kind).normalizer

\* BuildYAMLSource, BuildJSONSource: the file decodes to a document
BuildYAMLSource(types, convention) ==
    /\ Constructing
    /\ \E t \in types :
       \E tree \in TreesFor(t, Resolved(convention, YAMLSourceType)) :
          NewYAMLSource(tree, convention) /\ schema' = t
    /\ UNCHANGED decVars

BuildJSONSource(types, convention) ==
    /\ Constructing
    /\ \E t \in types :
       \E tree \in TreesFor(t, Resolved(convention, JSONSourceType)) :
          NewJSONSource(tree, convention) /\ schema' = t
    /\ UNCHANGED decVars

\* BuildEnvSource: the .env file is loaded into the environment
BuildEnvSource(types, convention) ==
    /\ Constructing
    /\ \E t \in types :
       \E e \in EnvsFor(t, Resolved(convention, EnvSourceType)) :
          NewEnvSource(convention) /\ environ' = e /\ schema' = t
    /\ UNCHANGED decVars

\* the JSON convention changes between the construction and the call
ChangeConvention ==
    /\ pc = "idle"
    /\ built.source.made
    /\ \/ SetConventionForSourceType(JSONSourceType, SnakeCaseConvention)
       \/ Setenv(JSONSourceType, "kebab")
    /\ UNCHANGED <<decVars, schema>>

CallRead ==
    /\ built.source.made
    /\ \E form \in TargetForms, t \in {schema, "int"} : Read(form, t)
    /\ UNCHANGED <<convVars, srcVars>>

CallReadKey ==
    /\ built.source.made
    /\ \E form \in TargetForms, kt \in KeyedTargets : ReadKey(kt[1], form, kt[2])
    /\ UNCHANGED <<convVars, srcVars>>

\* the steps of a running call
Iterate == (MapStep \/ EnvStep \/ Return) /\ UNCHANGED <<normVars, convVars, srcVars, facVars>>

InitDec == NormIdle /\ ConvInit /\ SrcInit /\ DecIdle /\ FacIdle
NextDec ==
    \/ BuildYAMLSource(StructTargets, "") /\ UNCHANGED <<normVars, facVars>>
    \/ BuildJSONSource(StructTargets, "") /\ UNCHANGED <<normVars, facVars>>
    \/ (\E c \in {"", CamelCaseConvention} : BuildEnvSource(StructTargets, c)) /\ UNCHANGED <<normVars, facVars>>
    \/ ChangeConvention /\ UNCHANGED <<normVars, facVars>>
    \/ CallRead /\ UNCHANGED <<normVars, facVars>>
    \/ CallReadKey /\ UNCHANGED <<normVars, facVars>>
    \/ Iterate
Spec == InitDec /\ [][NextDec]_vars

\* Decoding into the self-referential record type, with the fairness of a
\* sequential program: a call that can take a step takes it
SelfReferential == {"Node"}
NextLive ==
    \/ BuildJSONSource(SelfReferential, "") /\ UNCHANGED <<normVars, facVars>>
    \/ BuildEnvSource(SelfReferential, "") /\ UNCHANGED <<normVars, facVars>>
    \/ CallRead /\ UNCHANGED <<normVars, facVars>>
    \/ CallReadKey /\ UNCHANGED <<normVars, facVars>>
    \/ Iterate
SpecLive == InitDec /\ [][NextLive]_vars /\ WF_vars(Iterate)

\* The factory: sources are registered, then NewSource is called once in a
\* given environment
InitNew == NormIdle /\ ConvInit /\ SrcInit /\ DecIdle /\ FacInit
NextNew ==
    /\ UNCHANGED <<normVars, convVars, srcVars, decVars>>
    /\ \/ \E r \in {<<tX, "b1">>, <<tX, "b2">>, <<tYAML, "b1">>} : RegisterSource(r[1], r[2])
       \/ NewSource(FALSE, NoOptions)
       \/ \E opts \in OptionsGiven : NewSource(TRUE, opts)
       \/ TryBuilder
       \/ ReturnError
SpecNew == InitNew /\ [][NextNew]_vars

\* ------------------------------------------------------------------------
\* Properties
\* ------------------------------------------------------------------------

\* C9 (as claimed): for every convention and every logical key of letter and
\* digit segments, normalizing a normalized key changes nothing.
C9_Idempotent == nPc = "twice" => nTwice = nOnce


\* the convention a New*Source call acted on: the one whose normalizer the
\* source holds, or the one the error names
UsedConvention == IF built.err # "nil" THEN built.errConvention ELSE built.source.normalizer

FirstNonEmpty(seq) ==
    IF \E i \in 1..Len(seq) : seq[i] # ""
    THEN seq[CHOOSE i \in 1..Len(seq) : seq[i] # "" /\ \A j \in 1..(i-1) : seq[j] = ""]
    ELSE ""

RuntimeConvention == IF built.seen.runtime = NeverSet THEN "" ELSE built.seen.runtime

\* C4 (as claimed): the convention used is the first non-empty of the explicit
\* argument, the runtime registration, the environment variable and the
\* built-in default, so a registration wins over the environment variable.
\* (Stated for the calls where no empty convention was registered.)
C4_RegistrationBeforeEnv ==
    (built.called /\ built.seen.runtime # "") =>
        UsedConvention = FirstNonEmpty(<<built.explicit, RuntimeConvention, built.seen.env,
                                         DefaultSourceConventions[built.kind]>>)

\* C4 (amended): the convention used is the explicit argument if non-empty,
\* else the environment variable <KIND>_CONVENTION if non-empty, else the
\* kind's entry of the convention table: the value last registered with
\* SetConventionForSourceType (even an empty one) or, if none was ever
\* registered, the built-in default.  The environment variable wins over a
\* runtime registration.
C4_EnvBeforeRegistration ==
    built.called =>
        UsedConvention =
            IF built.explicit # "" THEN built.explicit
            ELSE IF built.seen.env # "" THEN built.seen.env
            ELSE IF built.seen.runtime # NeverSet THEN built.seen.runtime
            ELSE DefaultSourceConventions[built.kind]

C4_Witness ==
    /\ built.called
    /\ built.explicit = ""
    /\ built.seen.env \in normalizers
    /\ built.seen.runtime \in normalizers
    /\ built.seen.runtime # built.seen.env
    /\ built.source.made
    /\ built.source.normalizer = built.seen.env

\* C5: a New*Source call whose resolved convention has no registered
\* normalizer returns UnknownConventionError naming that convention and no
\* source; a call that returns no error returns a source with a normalizer.
C5_UnknownConvention ==
    built.called =>
        LET resolved == FirstNonEmpty(<<built.explicit, built.seen.env, built.seen.table>>)
        IN  /\ resolved \notin normalizers =>
                /\ built.err = "UnknownConventionError"
                /\ built.errConvention = resolved
                /\ ~built.source.made
            /\ built.err = "nil" =>
                /\ built.source.made
                /\ built.source.normalizer \in normalizers

C5_Witness ==
    /\ built.called
    /\ built.explicit = ""
    /\ built.err = "UnknownConventionError"
    /\ built.errConvention = "kebab"
    /\ ~built.source.made


\* ------------------------------------------------------------------------
\* Properties of Read and ReadKey
\* ------------------------------------------------------------------------
ValidTarget == call.form = "ptr" /\ (call.op = "Read" => Types[call.type].kind = "struct")
Returned == pc = "done" /\ result # "panic"

\* C1 (as claimed): a call with a valid target returns an error only when a
\* custom decoder returned one; every other failure is absorbed.
C1_OnlyDecoderErrors ==
    (Returned /\ ValidTarget /\ result # "nil") => decoderErr # "nil"

\* C2: once a custom decoder has returned an error, the call has returned
\* exactly that error and no queue item was processed after the decoder.
C2_DecoderErrorAborts ==
    decoderErr # "nil" =>
        /\ pc = "done"
        /\ result = decoderErr
        /\ steps = stepsAtErr
        /\ frames = <<>>

\* C2: the same, as a step property: after the decoder's error nothing is
\* written to the destination.
C2_NothingAfterError == [][decoderErr # "nil" => dest' = dest]_vars

\* the decoder of a member failed while the member after it, which the
\* source holds, was still queued: that member is never written
C2_Witness ==
    /\ decoderErr = "e2"
    /\ result = "e2"
    /\ pc = "done"
    /\ call.op = "Read"
    /\ call.type = "WithCustom"
    /\ Variant = "map"
    /\ MapIndex(data, Normalize(built.source.normalizer, sAfter)).k = "string"
    /\ <<Fld(3)>> \notin DOMAIN dest


\* ---- absence ----
ReadOfSchema == call.op = "Read" /\ ValidTarget
Members == 1..Len(Types[schema].fields)
\* the members the structural traversal of the target visits (none when the
\* target decodes itself)
Visits == {i \in Members : ~Types[schema].reader /\ processStructField(Types[schema].fields[i]) # <<>>}
MemberKey(i) == processStructField(Types[schema].fields[i])

\* the document holds no value, or null, under the physical key of a key
NoValueFor(key) ==
    \A j \in 1..Len(data.kids) :
        data.kids[j].key = Normalize(built.source.normalizer, key) => data.kids[j].val = VNil

\* no variable a decode of the type at the key may look up is set
NoVariableFor(type, key) ==
    \A l \in FlatLeaves(type, key, MaxDepth) :
        ~NormalizeFaults(built.source.normalizer, l.key)
            => Getenv(Normalize(built.source.normalizer, l.key)) = <<>>

Absent(i) ==
    IF Variant = "map" THEN NoValueFor(MemberKey(i))
    ELSE NoVariableFor(Types[schema].fields[i].type, MemberKey(i))

ZeroValues == {VNil, VStr(<<>>), VInt(0), VBool(FALSE)}
\* every slot at or under the path holds the zero value of its type
Zero(path) == \A p \in Under(dest, path) : dest[p] \in ZeroValues
\* ... or an allocated pointer or an empty sequence
Defaulted(path) == \A p \in Under(dest, path) : dest[p] \in ZeroValues \cup {VPtr, VSlice(0)}
\* a pointer slot is allocated, a sequence slot holds an empty sequence
Shaped(path, type) ==
    /\ Types[type].kind = "ptr" => Stored(path) = VPtr
    /\ Types[type].kind = "slice" => Stored(path) = VSlice(0)

\* C3 (as claimed): in both variants a member without source value ends at
\* the zero value of its type (nil pointer, nil sequence, ...), and absence
\* makes no call fail.
C3_AbsentIsZero ==
    (Returned /\ ReadOfSchema) =>
        /\ (\A i \in Visits : Absent(i)) => (result = "nil" \/ decoderErr # "nil")
        /\ \A i \in Visits : Absent(i) => Zero(<<Fld(i)>>)

SingleSegment(key) == key # <<>> /\ \A i \in 1..Len(key) : key[i] # "."

\* C3 (amended): absence makes no call fail.  In the Map variant a member
\* (or a ReadKey target) without source value ends at the zero value of its
\* type.  In the Flat variant a primitive or mapping destination without
\* variable ends at its zero value, but a pointer destination is always
\* allocated and a sequence destination always ends as an empty, non-nil
\* sequence.
C3_AbsentLeavesDefault ==
    /\ (Returned /\ ReadOfSchema) =>
        /\ (\A i \in Visits : Absent(i)) => (result = "nil" \/ decoderErr # "nil")
        /\ \A i \in Visits : Absent(i) =>
              IF Variant = "map" THEN Zero(<<Fld(i)>>)
              ELSE /\ Defaulted(<<Fld(i)>>)
                   /\ result = "nil" => Shaped(<<Fld(i)>>, Types[schema].fields[i].type)
    /\ (Returned /\ call.op = "ReadKey" /\ ValidTarget /\ SingleSegment(call.key)) =>
        /\ (Variant = "map" /\ NoValueFor(call.key)) => (result = "nil" /\ dest = <<>>)
        /\ (Variant = "env" /\ NoVariableFor(call.type, call.key)) =>
              /\ result = "nil" \/ decoderErr # "nil"
              /\ Defaulted(<<>>)
              /\ result = "nil" => Shaped(<<>>, call.type)

C3_Witness ==
    /\ Returned /\ ReadOfSchema
    /\ Variant = "env"
    /\ call.type = "Holder"
    /\ \A i \in Visits : Absent(i)
    /\ result = "nil"
    /\ Stored(<<Fld(1)>>) = VPtr
    /\ Stored(<<Fld(2)>>) = VSlice(0)
    /\ Stored(<<Fld(4)>>) = VNil

\* C6: Read fails when the target is not a non-nil pointer to a record and
\* ReadKey fails when it is not a non-nil pointer, before any queue item is
\* processed: nothing is written and the source is as it was.
C6_InvalidTarget ==
    (call.op # "" /\ ~ValidTarget) =>
        /\ pc = "done"
        /\ result = (IF call.form # "ptr" THEN ErrNotPointer ELSE ErrNotStruct)
        /\ steps = 0
        /\ dest = <<>>
        /\ visited = {}

C6_SourceUnchanged == [][(call'.op # "" /\ ~ValidTarget') => (data' = data /\ environ' = environ)]_vars

C6_Witness ==
    /\ pc = "done"
    /\ call.op = "Read"
    /\ call.form = "ptr"
    /\ call.type = "int"
    /\ result = ErrNotStruct

\* C7 (as claimed): ReadKey(k, t) on the source a Flat custom decoder gets at
\* key P reads the physical key of the logical key P.k, or of k when P is
\* empty, as the structural traversal does for a member with key k.
C7_ScopedKey ==
    (lastRead.made /\ lastRead.normalizer # "nil" /\ lastRead.key # <<>>
        /\ lastRead.physical # <<>>) =>
        lastRead.physical =
            Normalize(lastRead.normalizer,
                      IF Len(lastRead.prefix) > 0 THEN concatenateKeys(lastRead.prefix, lastRead.key)
                      ELSE lastRead.key)

\* ---- members ----
MemberOf(m) == Types[m[1]].fields[m[2]]
\* a member is tagged with the skip sentinel
Sentinel(field) == field.tag = <<"-">>
\* a member is an anonymous embedding of something that is not a record
EmbedsNonRecord(field) == field.anonymous /\ EmbeddedKind(field) # "struct"

\* C8 (as claimed): a member is enqueued only if it is not tagged "-", is
\* exported, and is not an anonymous non-record embedding: an unexported
\* member is never visited, embedded or not.
C8_ExportedOnly ==
    \A m \in visited :
        /\ ~Sentinel(MemberOf(m))
        /\ IsExported(MemberOf(m))
        /\ ~EmbedsNonRecord(MemberOf(m))

\* C10 (as claimed): every call returns after finitely many queue steps.
C10_Terminates == (pc = "running") ~> (pc = "done")

\* ---- mappings and sequences ----
\* the destinations of a returned call that have the given kind, each with
\* its path, its logical key and its type: the target of a ReadKey call and
\* the visited members of the target of a Read call
Destinations(kind) ==
    {d \in {[path |-> <<>>, key |-> call.key, type |-> call.type]} :
        call.op = "ReadKey" /\ ValidTarget /\ Types[d.type].kind = kind}
    \cup {[path |-> <<Fld(i)>>, key |-> MemberKey(i), type |-> Types[schema].fields[i].type] :
            i \in {i \in Visits : ReadOfSchema /\ call.type = schema
                                   /\ Types[Types[schema].fields[i].type].kind = kind}}

\* the text of the variable read for a destination
Variable(d) == Getenv(Normalize(built.source.normalizer, d.key))
\* the text is a JSON object
IsObject(text) == text \in DOMAIN JSONDocs /\ JSONDocs[text].k = "map"
\* the entries a mapping destination holds
Entries(path) == {e \in 1..4 : path \o <<Entry(e)>> \in DOMAIN dest}

\* C11 (as claimed): in the Flat variant a mapping destination whose variable
\* holds the text of a JSON object ends with one entry per entry of the
\* object, its key and value decoded into the key and value types.
C11_ObjectDecoded ==
    (Returned /\ Variant = "env" /\ result = "nil") =>
        \A d \in Destinations("map") :
            (~NormalizeFaults(built.source.normalizer, d.key) /\ IsObject(Variable(d))) =>
                LET kids == JSONDocs[Variable(d)].kids
                IN  /\ Entries(d.path) = 1..Len(kids)
                    /\ \A e \in 1..Len(kids) :
                          /\ Stored(d.path \o <<Entry(e), 0>>) = VStr(kids[e].key)
                          /\ Stored(d.path \o <<Entry(e), 1>>)
                                = Convert(kids[e].val, Types[Types[d.type].elem].kind)

\* a sequence destination whose elements are primitive
PrimitiveElements(d) == Types[Types[d.type].elem].kind \in {"string", "int", "bool"}
\* the destination is a sequence of one element per piece of the text:
\* element i is the decoding of the trimmed piece i, or zero when the piece
\* does not decode
DecodedPieces(d, text) ==
    LET pieces == Split(text, ",")
        piece(i) == readEnvPrimitive(TrimSpace(pieces[i]), Types[Types[d.type].elem].kind)
    IN  /\ Stored(d.path) = VSlice(Len(pieces))
        /\ \A i \in 1..Len(pieces) :
              IF piece(i).ok THEN Stored(d.path \o <<Idx(i)>>) = piece(i).v
              ELSE d.path \o <<Idx(i)>> \notin DOMAIN dest
        /\ \A p \in Under(dest, d.path) : Len(p) > Len(d.path) => p[Len(p)] - 100 \in 1..Len(pieces)
EmptySequence(d) == Stored(d.path) = VSlice(0) /\ Under(dest, d.path) = {d.path}

\* C12 (as claimed): in the Flat variant a sequence destination with primitive
\* elements and a non-empty variable v gets one element per comma-separated
\* piece of v, element i decoded from the trimmed piece i and left at zero
\* when the piece fails to decode; an empty or unset variable yields an
\* empty, non-nil sequence.
C12_OnePerPiece ==
    (Returned /\ Variant = "env" /\ result = "nil") =>
        \A d \in Destinations("slice") :
            (PrimitiveElements(d) /\ ~NormalizeFaults(built.source.normalizer, d.key)) =>
                IF Len(Variable(d)) > 0 THEN DecodedPieces(d, Variable(d))
                ELSE EmptySequence(d)

\* C12 (amended): the same of the variable with its surrounding whitespace
\* removed: a variable of nothing but whitespace yields an empty, non-nil
\* sequence, not a sequence of one zero element.
C12_OnePerTrimmedPiece ==
    (Returned /\ Variant = "env" /\ result = "nil") =>
        \A d \in Destinations("slice") :
            (PrimitiveElements(d) /\ ~NormalizeFaults(built.source.normalizer, d.key)) =>
                IF Len(TrimSpace(Variable(d))) > 0 THEN DecodedPieces(d, TrimSpace(Variable(d)))
                ELSE EmptySequence(d)

\* "1, x, 2" is read into a sequence of integers: the second piece does not
\* decode and its element stays zero between the two others
C12_Witness ==
    /\ Returned /\ Variant = "env" /\ result = "nil"
    /\ call.op = "ReadKey" /\ call.form = "ptr" /\ call.type = "[]int"
    /\ ~NormalizeFaults(built.source.normalizer, call.key)
    /\ Getenv(Normalize(built.source.normalizer, call.key)) = <<"1",","," ","x",","," ","2">>
    /\ dest = (<<>> :> VSlice(3)) @@ (<<Idx(1)>> :> VInt(1)) @@ (<<Idx(3)>> :> VInt(2))

\* ---- the factory ----
Tried == [k \in 1..Len(attempts) |-> attempts[k].typ]
Reverse(seq) == [k \in 1..Len(seq) |-> seq[Len(seq) + 1 - k]]
\* the call is past its preamble with no source type, given or inferred
Untyped ==
    /\ factory.pc \in {"loop", "done"}
    /\ Len(factory.sourceType) = 0
    /\ Len(factory.sourceOptions.FilePath) > 0 => Len(factory.inferredType) = 0
\* registered sources, the most recently registered first, then yaml, json, env
TryOrder == Reverse(registrations) \o <<tYAML, tJSON, tEnv>>

\* C13: with no source type given or inferred, the builders NewSource has
\* called so far are an initial part of: the registered sources, most recently
\* registered first, then yaml, json, env; every builder called before the
\* last one failed; the call returns the source of the builder that
\* succeeded, or, when all of them were called and failed, the error of the
\* last one.
C13_TryOrder ==
    Untyped =>
        /\ Len(attempts) <= Len(TryOrder)
        /\ Tried = SubSeq(TryOrder, 1, Len(attempts))
        /\ \A k \in 1..Len(attempts) :
              /\ attempts[k].builder = sources[TryOrder[k]]
              /\ k < Len(attempts) => attempts[k].builder \notin succeeds
        /\ factory.pc = "done" =>
              /\ attempts # <<>>
              /\ IF attempts[Len(attempts)].builder \in succeeds
                 THEN factory.source = attempts[Len(attempts)].builder
                 ELSE /\ factory.source = "nil"
                      /\ Len(attempts) = Len(TryOrder)
                      /\ factory.err = ErrorOf(attempts[Len(attempts)].builder)

\* C13: once NewSource has returned, no builder is called
C13_NoLaterBuilder == [][factory.pc = "done" => attempts' = attempts]_vars

\* two sources were registered, the second under the name of a built-in one;
\* both fail, the yaml builder (now b1) fails again in its built-in place,
\* and the json builder succeeds: the env builder is never called
C13_Witness ==
    /\ Untyped
    /\ factory.pc = "done"
    /\ registrations = <<tX, tYAML>>
    /\ Tried = <<tYAML, tX, tYAML, tJSON>>
    /\ factory.source = "BuildJSONSource"

\* every builder is called and fails: the error is that of the env builder
C13_WitnessAllFail ==
    /\ Untyped
    /\ factory.pc = "done"
    /\ registrations = <<tX>>
    /\ Tried = <<tX, tYAML, tJSON, tEnv>>
    /\ factory.source = "nil"
    /\ factory.err = ErrorOf("BuildEnvSource")

\* the Options of the call; the zero Options when none was passed
OptionsOfCall == IF factory.given THEN factory.opts ELSE NoOptions
\* the environment variable when it is not empty, else the Options field
EnvFirst(variable, field) == IF Len(variable) > 0 THEN variable ELSE field
\* the source type that results; the value of CONFIG_TYPE is taken in lower case
ResultingType == EnvFirst(ToLower(config.type), OptionsOfCall.SourceType)

\* C14: the file path and the convention every builder is called with are
\* those of CONFIG_PATH and CONFIG_CONVENTION when these are not empty and
\* those of the Options otherwise; when CONFIG_TYPE or, CONFIG_TYPE being
\* empty, the Options name a source type, no builder but that of this type
\* is called.
C14_EnvironmentFirst ==
    factory.pc # "idle" =>
        /\ factory.sourceOptions =
              [FilePath |-> EnvFirst(config.path, OptionsOfCall.FilePath),
               Convention |-> EnvFirst(config.convention, OptionsOfCall.Convention)]
        /\ \A k \in 1..Len(attempts) :
              /\ attempts[k].opts = factory.sourceOptions
              /\ Len(ResultingType) > 0 =>
                    /\ attempts[k].typ = ResultingType
                    /\ attempts[k].builder = sources[ResultingType]
                    /\ k = 1

\* the three variables are set and the Options name another path, convention
\* and type: the json builder alone is called, with the values of the variables
C14_Witness ==
    /\ factory.pc = "done"
    /\ config = [path |-> <<".","e","n","v",".","d">>, convention |-> SnakeCaseConvention,
                 type |-> <<"J","S","O","N">>]
    /\ factory.given
    /\ factory.opts = [FilePath |-> <<"a",".","x">>, Convention |-> CamelCaseConvention,
                       SourceType |-> tYAML]
    /\ attempts = <<[typ |-> tJSON, builder |-> "BuildJSONSource",
                     opts |-> [FilePath |-> <<".","e","n","v",".","d">>,
                               Convention |-> SnakeCaseConvention]]>>

\* ---- the Map variant: mappings and sequences ----
\* the source value a destination of a Map-variant call is decoded from
SourceOf(d) ==
    IF d.key = <<>> THEN data
    ELSE getKeyFromMap(built.source.normalizer, data, d.key).v
MapCall == Returned /\ Variant = "map" /\ result = "nil"
ElemOf(d) == Types[d.type].elem
KeyOf(d) == Types[d.type].key

\* what a source value alone gives for a primitive destination: [ok, v]
Coerce(kind, v) ==
    CASE kind = "string" -> [ok |-> v.k \in {"string", "int"}, v |-> Convert(v, "string")]
      [] kind = "int" -> [ok |-> v.k \in {"int", "float"}, v |-> Convert(v, "int")]
      [] kind = "bool" ->
            IF v.k = "bool" THEN [ok |-> TRUE, v |-> v]
            ELSE IF v.k = "string"
            THEN [ok |-> parseBool(v.s).ok, v |-> VBool(parseBool(v.s).b)]
            ELSE [ok |-> v.k = "float", v |-> VBool(v.n > 0)]
      [] OTHER -> [ok |-> FALSE, v |-> VNil]
\* a source value reaches a success path for a destination type
Decodes(type, v) ==
    IF Types[type].kind = "struct" THEN v.k = "map"
    ELSE Coerce(Types[type].kind, v).ok

\* C15 (as claimed): after a Map-variant decode an entry committed to a
\* mapping of records holds the fully decoded record: every slot decoded for
\* the value of the entry is in the value the mapping holds.
C15_CommittedComplete ==
    MapCall =>
        \A d \in Destinations("map") :
            Types[ElemOf(d)].kind = "struct" =>
                \A e \in Entries(d.path) :
                    \A p \in Under(dest, d.path \o <<ValSlot(e)>>) :
                        Stored(d.path \o <<Entry(e), 1>> \o SubSeq(p, Len(d.path) + 2, Len(p)))
                            = dest[p]

\* in every queue a key item is directly followed by the value item of its
\* entry, and a value item is at the head or directly preceded by its key item
KeyBeforeValue ==
    \A f \in 1..Len(frames) :
        LET q == frames[f].queue
        IN  \A j \in 1..Len(q) :
               /\ q[j].callback.kind = "key" =>
                     /\ j < Len(q)
                     /\ q[j + 1].callback = [q[j].callback EXCEPT !.kind = "value"]
               /\ (q[j].callback.kind = "value" /\ j > 1) =>
                     q[j - 1].callback = [q[j].callback EXCEPT !.kind = "key"]

\* C16: the key item of an entry is processed directly before its value
\* item, whatever else is queued, and after the call every source entry whose
\* key and value both decode has an entry in the destination mapping.
C16_KeyFirst ==
    /\ KeyBeforeValue
    /\ MapCall =>
          \A d \in Destinations("map") :
              SourceOf(d).k = "map" =>
                  \A e \in 1..Len(SourceOf(d).kids) :
                      (/\ Decodes(KeyOf(d), VStr(SourceOf(d).kids[e].key))
                       /\ Decodes(ElemOf(d), SourceOf(d).kids[e].val))
                          => e \in Entries(d.path)

\* of the three entries of a mapping from booleans to integers, the one
\* whose key and value decode is committed while value items of other
\* entries are in the queue around it
C16_Witness ==
    /\ MapCall
    /\ call.op = "Read" /\ call.type = "Tables"
    /\ SourceOf([key |-> sFlags]).k = "map"
    /\ Entries(<<Fld(2)>>) = {1}
    /\ Stored(<<Fld(2), Entry(1), 0>>) = VBool(TRUE)
    /\ Stored(<<Fld(2), Entry(1), 1>>) = VInt(1)

\* C17: in the Map variant the destination mapping has an entry only for a
\* source entry whose key and value both reached a success path; a key or a
\* value that does not coerce, or a null value, adds no entry for that source
\* entry, leaves the other entries as they are and makes no call fail.
C17_OnlyDecodedEntries ==
    /\ (Returned /\ ValidTarget /\ Variant = "map" /\ decoderErr = "nil") => result = "nil"
    /\ MapCall =>
          \A d \in Destinations("map") :
              /\ SourceOf(d).k # "map" => Entries(d.path) = {}
              /\ SourceOf(d).k = "map" =>
                    \A e \in 1..4 :
                        e \in Entries(d.path) <=>
                            /\ e <= Len(SourceOf(d).kids)
                            /\ Decodes(KeyOf(d), VStr(SourceOf(d).kids[e].key))
                            /\ Decodes(ElemOf(d), SourceOf(d).kids[e].val)

\* the entry with the key "x", which is no boolean, the entry with the value
\* "x", which is no integer, and the entry with the null value are left out
C17_Witness ==
    /\ MapCall
    /\ call.op = "Read" /\ call.type = "Tables"
    /\ SourceOf([key |-> sFlags]).k = "map"
    /\ Len(SourceOf([key |-> sFlags]).kids) = 3
    /\ SourceOf([key |-> sRecs]).k = "map"
    /\ SourceOf([key |-> sRecs]).kids[2].val = VNil
    /\ Entries(<<Fld(2)>>) = {1}
    /\ Entries(<<Fld(1)>>) = {1}

\* a record element or member decoded from a source mapping: each member
\* with a key holds what its source value gives, or nothing
RecordFrom(path, type, v) ==
    LET fs == Types[type].fields
        src(i) == getKeyFromMap(built.source.normalizer, v, processStructField(fs[i])).v
    IN  \A p \in Under(dest, path) :
            \/ p = path
            \/ /\ Len(p) = Len(path) + 1
               /\ p[Len(p)] \in 1..Len(fs)
               /\ processStructField(fs[p[Len(p)]]) # <<>>
               /\ Coerce(Types[fs[p[Len(p)]].type].kind, src(p[Len(p)])).ok
               /\ dest[p] = Coerce(Types[fs[p[Len(p)]].type].kind, src(p[Len(p)])).v
\* slot i of a sequence holds what source element v gives, or is left at zero
ElementFrom(path, type, v) ==
    IF ~Decodes(type, v) THEN Under(dest, path) = {}
    ELSE IF Types[type].kind = "struct" THEN RecordFrom(path, type, v)
    ELSE dest[path] = Coerce(Types[type].kind, v).v /\ Under(dest, path) = {path}

\* C18: in the Map variant a source sequence of length n decoded into a
\* sequence destination gives a destination of length n whose element i is
\* decoded from source element i; a null element or one that does not coerce
\* leaves slot i at zero and moves or drops no other element.
C18_ElementPerIndex ==
    MapCall =>
        \A d \in Destinations("slice") :
            (SourceOf(d).k = "seq" /\ ~Types[ElemOf(d)].reader) =>
                LET n == Len(SourceOf(d).kids)
                IN  /\ Stored(d.path) = VSlice(n)
                    /\ \A p \in Under(dest, d.path) :
                          Len(p) > Len(d.path) => p[Len(d.path) + 1] \in {Idx(i) : i \in 1..n}
                    /\ \A i \in 1..n :
                          ElementFrom(d.path \o <<Idx(i)>>, ElemOf(d), SourceOf(d).kids[i].val)

\* the sequence null, "x", 1 is read into a sequence of integers: the third
\* slot holds 1 and the two before it are left at zero
C18_Witness ==
    /\ MapCall
    /\ call.op = "ReadKey" /\ call.type = "[]int"
    /\ SourceOf([key |-> call.key]) = VSeq(<<VNil, VStr(sX), VInt(1)>>)
    /\ dest = (<<>> :> VSlice(3)) @@ (<<Idx(3)>> :> VInt(1))

\* ---- the Map variant: primitives ----
Numeric(v) == v.k \in {"int", "float"}
\* the number is 1, as an integer or as a floating-point number
IsOne(v) == (v.k = "int" /\ v.n = 1) \/ (v.k = "float" /\ v.n = 10)
IsZero(v) == Numeric(v) /\ v.n = 0
Unset(path) == path \notin DOMAIN dest

\* C19 (as claimed): in the Map variant a boolean destination fed a number
\* follows the boolean grammar, for integers and floating-point numbers alike:
\* 1 gives true, 0 gives false, every other number leaves it at false.
C19_NumericGrammar ==
    MapCall =>
        \A d \in Destinations("bool") :
            Numeric(SourceOf(d)) =>
                IF IsOne(SourceOf(d)) THEN Stored(d.path) = VBool(TRUE)
                ELSE IF IsZero(SourceOf(d)) THEN Stored(d.path) = VBool(FALSE)
                ELSE Unset(d.path) \/ Stored(d.path) = VBool(FALSE)

\* C19 (amended): a floating-point source gives true when it is greater than
\* 0 and false otherwise, and is never a parse failure; an integer source is
\* not coerced and leaves the destination unset.
C19_PositiveFloat ==
    MapCall =>
        \A d \in Destinations("bool") :
            /\ SourceOf(d).k = "float" => Stored(d.path) = VBool(SourceOf(d).n > 0)
            /\ SourceOf(d).k = "int" => Unset(d.path)

\* the floating-point number 2 is read into a boolean, which becomes true
C19_Witness ==
    /\ MapCall
    /\ call.op = "ReadKey" /\ call.type = "bool"
    /\ SourceOf([key |-> call.key]) = VFloat(20)
    /\ dest = (<<>> :> VBool(TRUE))

\* C20 (as claimed): in the Map variant a source value is assigned directly
\* only when the conversion loses nothing: an integer source is not assigned
\* to a string destination as a character code and a number with a
\* fractional part is not truncated into an integer destination.
C20_LosslessOnly ==
    MapCall =>
        /\ \A d \in Destinations("string") : SourceOf(d).k = "int" => Unset(d.path)
        /\ \A d \in Destinations("int") :
              (SourceOf(d).k = "float" /\ SourceOf(d).n % 10 # 0) => Unset(d.path)

\* ---- the source of a custom decoder ----
\* a custom decoder of a Map-variant source has called ReadKey with a
\* non-empty key on the source it was handed
DecoderReadKey == Variant = "map" /\ lastRead.made /\ lastRead.key # <<>>

\* C21 (as claimed): the source the Map variant hands to a custom decoder
\* resolves a non-empty key under the convention of the enclosing source,
\* and the lookup never faults for lack of a normalizer.
C21_SubSourceUsable ==
    DecoderReadKey =>
        /\ lastRead.normalizer = built.source.normalizer
        /\ result # "panic"

\* ---- conventions changed after the construction ----
\* until a source is constructed the registry is as declared
RegistryAsDeclared ==
    ~built.source.made =>
        (sourceConventions = DefaultSourceConventions /\ convEnv = [k \in SourceKinds |-> ""])
\* the normalizers resolved when the source was constructed: its own, and
\* the one a JSON source had then
BoundAtConstruction ==
    {built.source.normalizer, GetNormalizer(DefaultSourceConventions[JSONSourceType])}

\* C22 (as claimed): every key lookup of a decode uses a normalizer bound
\* when the source was constructed, and a convention changed afterwards
\* changes neither the result nor the error outcome of the call: no
\* traversal runs under another normalizer, JSON text in an environment
\* value included, and no call returns an unknown-convention error.
C22_BoundAtConstruction ==
    built.source.made =>
        /\ \A i \in 1..Len(frames) : frames[i].normalizer \in BoundAtConstruction
        /\ Returned => result # "UnknownConventionError"

\* ---- a source type without builder ----
\* CONFIG_TYPE or the Options name a type that has no entry in sources
Unregistered == Len(ResultingType) > 0 /\ ResultingType \notin DOMAIN sources

\* C23 (as claimed): NewSource never calls the builder of a type that is not
\* registered: when the resulting type has no builder the call returns an
\* error, having called no builder.
C23_ErrorForUnregistered ==
    /\ factory.pc # "panic"
    /\ (factory.pc = "done" /\ Unregistered) =>
          /\ factory.source = "nil"
          /\ factory.err # NoError
          /\ attempts = <<>>

====
